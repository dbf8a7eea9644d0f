---------------------------- MODULE FieldCrypto ----------------------------
(***************************************************************************)
(* Field-level end-to-end encryption (internal/e2ee: nearcloud.go,         *)
(* venice.go, and the decryption half of relay.go; the EncryptRequest      *)
(* methods of the venice and neardirect providers).                        *)
(*                                                                         *)
(* A JSON document is a function from paths to what the code can tell of   *)
(* the value there.  A leaf below a container is present only if the       *)
(* container is well formed; a value at a container's own path means that  *)
(* the container is something else, such as a string.                      *)
(***************************************************************************)
EXTENDS Naturals

\* A JSON value: no key, null, "", a string that does not look like a
\* ciphertext, a ciphertext that opens with the receiver's key, one that does
\* not authenticate, and a value that is not a string.
Leaf == {"absent", "null", "empty", "plain", "sealed", "forged", "other"}
Missing == {"absent", "null"}

Endpoints == {"chat", "images", "embeddings", "rerank", "score", "audio"}

(***************************************************************************)
(* Requests                                                                *)
(***************************************************************************)

\* The paths EncryptRequest looks at: those of a chat message with NEAR, those
\* at the top of a chat request, and those of the other endpoints.
MessagePaths == {"content", "content[]", "reasoning_content", "reasoning", "refusal", "name",
                 "audio", "audio.data", "tool_calls", "tool_calls[].function.name",
                 "tool_calls[].function.arguments", "function_call.name",
                 "function_call.arguments"}
TopLevelPaths == {"tools", "tools[].function.name", "tools[].function.description",
                  "tools[].function.parameters", "tool_choice.function.name",
                  "request.function_call.name"}
SealedPaths(prot, ep) ==
  [chat |-> IF prot = "venice" THEN {"content", "content[]"} ELSE MessagePaths \cup TopLevelPaths,
   images |-> {"prompt"}, embeddings |-> {"input", "input[]"},
   rerank |-> {"query", "documents[]", "documents[].text"}, score |-> {"text_1", "text_2"},
   audio |-> {}][ep]

\* The endpoints a protocol encrypts; the others are an error.
Supports(prot, ep) == IF prot = "venice" THEN ep = "chat" ELSE ep \in Endpoints \ {"audio"}

\* mutant: a value that is not a string is passed through
SealLeafStrings(path, v) == IF v \in Missing \cup {"other"} THEN v ELSE "sealed"

\* The arrays and objects that are sealed as the JSON they are.
SealedJSON == {"content[]", "tools[].function.parameters"}

\* encryptOptionalStringField and its variants: a string is sealed, whatever
\* it says, a missing one is left out, and a value of another type is an error.
\* An image needs its prompt, an array of inputs has strings only, and audio,
\* tool_calls and tools that are not what they should be are an error (a
\* function_call or tool_choice that is a string, such as "auto", is not).
SealLeaf(path, v) ==
  CASE v = "absent" -> IF path = "prompt" THEN "error" ELSE "absent"
    [] v = "null" -> IF path = "prompt" THEN "sealed"
                     ELSE IF path = "input[]" THEN "error" ELSE "null"
    [] v = "other" -> IF path \in SealedJSON THEN "sealed" ELSE "error"
    [] OTHER -> IF path \in {"audio", "tool_calls", "tools"} THEN "error" ELSE "sealed"

\* EncryptRequest: the body with its paths sealed, every other one as it was.
EncryptRequest(prot, ep, body) ==
  [p \in DOMAIN body |-> IF p \in SealedPaths(prot, ep) THEN SealLeaf(p, body[p]) ELSE body[p]]

FailsNever(doc) == FALSE   \* mutant: an error is dropped
Fails(doc) == \E p \in DOMAIN doc : doc[p] = "error"

(***************************************************************************)
(* Response policy                                                         *)
(***************************************************************************)

\* IsNonEncryptedField
NonEncryptedFields == {"role", "tool_call_id", "type", "finish_reason", "id"}

Containers == {"audio", "tool_calls", "function_call", "logprobs"}

\* Decryptor.IsResponseFieldEncrypted: Venice seals the content of a chat;
\* NEAR seals every leaf but metadata and the score of /v1/score.
IsResponseFieldEncrypted(prot, path, ep) ==
  IF prot = "venice" THEN ep = "chat" /\ path = "content"
  ELSE /\ path \notin NonEncryptedFields \cup Containers
       /\ ~(ep = "score" /\ path = "score")

\* mutant: what does not look like a ciphertext is always let through
DecryptIfSealed(required, v) ==
  CASE v = "sealed" -> "opened" [] v = "forged" -> "error" [] OTHER -> v

\* DecryptFieldOrSkip, after the callers' checks for null.
DecryptFieldOrSkip(required, v) ==
  CASE v \in Missing \cup {"empty"} -> v
    [] v = "sealed" -> "opened"
    [] v = "forged" -> "error"
    [] v \in {"plain", "other"} -> IF required THEN "error" ELSE v

\* decryptMaybeEncryptedStringField and decryptJSONValueField
DecryptLeaf(prot, ep, path, v) ==
  DecryptFieldOrSkip(IsResponseFieldEncrypted(prot, path, ep), v)

(***************************************************************************)
(* Choices: a message, or a delta, and the logprobs beside it              *)
(***************************************************************************)
LogprobsPaths == {"logprobs", "logprobs.content[].token"}
ChatPaths == {"role", "content", "content[].text", "refusal", "audio", "audio.data",
              "tool_calls", "tool_calls[].function.name", "function_call",
              "function_call.name"} \cup LogprobsPaths
Message == [ChatPaths -> Leaf]

\* A choice; has says that its "delta", or "message", is there.
Choice(docs) ==
  {c \in [has : BOOLEAN, doc : docs] :
     c.has \/ \A p \in ChatPaths \ LogprobsPaths : c.doc[p] = "absent"}

\* decryptContentField, for the text parts of a content array.
DecryptParts(prot, ep, v) ==
  CASE v = "absent" -> v
    [] v # "absent" /\ IsResponseFieldEncrypted(prot, "content[].text", ep) ->
         DecryptLeaf(prot, ep, "content[].text", v)
    [] OTHER -> IF IsResponseFieldEncrypted(prot, "content", ep) THEN "error" ELSE v

\* The container of a leaf whose policy decides whether it is looked at.
GatedBy(container) ==
  [audio |-> "audio.data", tool_calls |-> "tool_calls[].function.name"][container]

\* decryptAudioDataField and decryptToolCallsField on a malformed container;
\* a function_call that is not an object is left as it is.
DecryptContainer(prot, ep, path, v) ==
  IF /\ path \in {"audio", "tool_calls"} /\ v \notin Missing
     /\ IsResponseFieldEncrypted(prot, GatedBy(path), ep)
    THEN "error" ELSE v

\* The nested leaves are looked at only if the policy seals them.
DecryptNested(prot, ep, path, v) ==
  IF IsResponseFieldEncrypted(prot, path, ep) THEN DecryptLeaf(prot, ep, path, v) ELSE v

\* decryptChatObject on the message of a choice.
DecryptChatObject(prot, ep, m) ==
  [p \in ChatPaths |->
     CASE p \in NonEncryptedFields \cup LogprobsPaths -> m[p]
       [] p \in {"content", "refusal"} -> DecryptLeaf(prot, ep, p, m[p])
       [] p = "content[].text" -> DecryptParts(prot, ep, m[p])
       [] p \in Containers \ LogprobsPaths -> DecryptContainer(prot, ep, p, m[p])
       [] OTHER -> DecryptNested(prot, ep, p, m[p])]

\* decryptChoiceLogprobs; logprobs that are not an object are left as they are.
DecryptChoiceLogprobs(prot, ep, m) ==
  [p \in ChatPaths |->
     IF p = "logprobs.content[].token" THEN DecryptNested(prot, ep, p, m[p]) ELSE m[p]]

\* The early returns of DecryptSSEChunk and decryptResponseChoices: a choice
\* without a delta or message is left as it is, its logprobs too.
DecryptChoice(prot, ep, c) ==
  [has |-> c.has,
   doc |-> IF c.has THEN DecryptChoiceLogprobs(prot, ep, DecryptChatObject(prot, ep, c.doc))
           ELSE c.doc]

\* What decryptSSEChunkContent and extractChunkMeta take from a delta when a
\* stream is reassembled: the strings at the top of the delta, none of which
\* may still be the ciphertext it was, and the tool calls, each with an index
\* and a name that is a string.
DeltaStrings == {"content", "refusal", "audio", "tool_calls", "function_call"}
ReassembleDelta(prot, ep, m, indexed) ==
  LET d == DecryptChatObject(prot, ep, m)
      call == d["tool_calls[].function.name"]
  IN [p \in ChatPaths |->
        IF \/ p \in DeltaStrings /\ m[p] \in {"sealed", "forged"} /\ d[p] = m[p]
           \/ p = "tool_calls" /\ m[p] \notin Missing
           \/ p = "tool_calls[].function.name" /\ call # "absent" /\ ~indexed
           \/ p = "tool_calls[].function.name" /\ call = "other"
           \/ d[p] = "error"
          THEN "error"
        ELSE IF \/ p \in DeltaStrings /\ d[p] \in {"opened", "plain"}
                \/ p = "tool_calls[].function.name"
          THEN d[p] ELSE "absent"]

(***************************************************************************)
(* Responses that are not streamed                                         *)
(***************************************************************************)

\* The fields of an item of data[] or results[], and the top-level score.
ItemPaths == {"b64_json", "embedding", "data[].score", "document",
              "results[].document.text", "score"}

\* The path of the item that the endpoint reads.
ItemLeaf(ep, path) ==
  CASE ep = "images" -> path = "b64_json"
    [] ep = "embeddings" -> path = "embedding"
    [] ep = "score" -> path = "data[].score"
    [] ep = "rerank" -> path \in {"document", "results[].document.text"}
    [] OTHER -> FALSE

\* decryptResponseDataArrayField and decryptResponseRerankResults: the field
\* has to be there; a document that is no object with a text is an error if
\* the text has to be sealed.
DecryptItem(prot, ep, path, v, document) ==
  LET policy == CASE path = "data[].score" -> "score"
                  [] path = "document" -> "results[].document.text"
                  [] OTHER -> path
      required == IsResponseFieldEncrypted(prot, policy, ep)
  IN CASE path = "document" ->
            IF v = "absent" /\ document = "absent" THEN "error"
            ELSE IF v \notin Missing /\ required THEN "error" ELSE v
       [] path = "results[].document.text" /\ v = "absent" -> v
       [] path \in {"embedding", "data[].score"} /\ v = "absent" -> "error"
       [] OTHER -> DecryptLeaf(prot, ep, policy, v)

\* The data of an answer; has says that data[] or results[] holds an item.
Data(docs) ==
  {d \in [has : BOOLEAN, doc : docs] :
     d.has \/ \A p \in ItemPaths \ {"score"} : d.doc[p] = "absent"}

\* DecryptNonStreamResponseForEndpoint on the data and the top-level score of
\* an answer: no item has to be there.
DecryptNonStreamResponse(prot, ep, data) ==
  LET item == data.doc IN
  [p \in ItemPaths |->
     CASE p = "score" -> DecryptLeaf(prot, ep, "score", item[p])
       [] data.has /\ ItemLeaf(ep, p) ->
            DecryptItem(prot, ep, p, item[p], item["results[].document.text"])
       [] OTHER -> item[p]]

=============================================================================
