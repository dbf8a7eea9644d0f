-------------------------------- MODULE Relay -------------------------------
(***************************************************************************)
(* The end-to-end encrypted exchange of one request with its upstream, and *)
(* the relay of the answer to the client (internal/e2ee: relay.go,         *)
(* relay_chutes.go, sse.go, chutes.go, ehbp.go; proxy.go: relayResponse,   *)
(* unwrapEHBPResponse and the loop of relayWithRetry around them).         *)
(*                                                                         *)
(* The answer passes through parties that are not attested: its lines and  *)
(* frames can be lost, repeated, reordered, cut off, forged or replaced by *)
(* plaintext.  ProxyRequest takes what a relay may return from here; this  *)
(* module says what the client has been given when it does.                *)
(***************************************************************************)
EXTENDS FieldCrypto, Sequences

CONSTANTS
  Hows,         \* the protocols, endpoints and ways to answer that are relayed
  Bodies,       \* requests, by endpoint
  Deltas,       \* the messages of an answer's choices
  Items,        \* the data of an answer that is not a chat
  None,
  MaxAttempts,  \* chutesMaxAttempts
  MaxReads,     \* bound: lines or frames of one answer, by protocol
  ChunkLimit    \* maxChunkIdx

Protocols == {"venice", "near", "chutes", "ehbp", "plain"}
How == [prot : Protocols, ep : Endpoints, stream : BOOLEAN]

ASSUME HowsAssumption == /\ Hows \subseteq How
                         \* only the pinned NEAR handlers seal other endpoints,
                         \* and those do not stream
                         /\ \A h \in Hows : h.ep # "chat" => h.prot = "near" /\ ~h.stream
ASSUME DeltasAssumption == Deltas \subseteq Message /\ Items \subseteq [ItemPaths -> Leaf]
\* A body has the paths that EncryptRequest looks at, the model and the roles.
ASSUME BodiesAssumption ==
  \A ep \in Endpoints : \A b \in Bodies[ep] :
    /\ \A p \in DOMAIN b : b[p] \in Leaf
    /\ ep # "audio" => DOMAIN b \subseteq SealedPaths("near", ep) \cup {"model", "role"}
ASSUME RelayBounds == MaxAttempts \in Nat \ {0} /\ MaxReads \in [Protocols -> Nat] /\ ChunkLimit \in Nat

VARIABLES
  how,      \* the request
  pc,
  body,     \* the body of the upstream request, until it is sent
  attempt,  \* the attempt of relayWithRetry
  reads,    \* lines or frames read in this attempt; the index of an EHBP chunk
  key,      \* RelayStreamChutes: streamKey
  got,      \* what a relay that does not stream has collected
  client,   \* what the client was given: the headers and the answer's parts
  err,      \* what the relay function returned
  usable,   \* MarkE2EEUsable was called for this request
  opened    \* ghost: this attempt opened something sealed for its session

vars == <<how, pc, body, attempt, reads, key, got, client, err, usable, opened>>

Limit == MaxReads[how.prot]

(***************************************************************************)
(* The upstream answer                                                     *)
(***************************************************************************)
Nothing == [p \in ChatPaths |-> "absent"]
NoChoice == [has |-> FALSE, doc |-> Nothing]
NoItem == [p \in ItemPaths |-> "absent"]
Choices == Choice(Deltas)

GivenChoice == [has : BOOLEAN, doc : [ChatPaths -> Leaf \cup {"opened"}]]

\* A part of an answer: the two choices of a chunk, and its data; sealed says
\* that the enclave sealed the whole of it for this attempt, as part number n;
\* verbatim, that the line was copied without a look at what it says.
Part == [att : 1 .. MaxAttempts, n : 0 .. Limit, sealed : BOOLEAN, verbatim : BOOLEAN,
         first : GivenChoice, second : GivenChoice,
         item : [ItemPaths -> Leaf \cup {"opened"}]]

Given(n, sealed, verbatim, first, second, item) ==
  [att |-> attempt, n |-> n, sealed |-> sealed, verbatim |-> verbatim, first |-> first,
   second |-> second, item |-> item]
Blank(n, sealed) == Given(n, sealed, FALSE, NoChoice, NoChoice, NoItem)
Verbatim(choice) == Given(0, FALSE, TRUE, choice, NoChoice, NoItem)
Decrypted(first, second, item) == Given(0, FALSE, FALSE, first, second, item)

FullBody == {"chutes", "ehbp"}
Fields == how.prot \in {"venice", "near"}

Simple(kinds) == [kind : kinds]
\* A chunk has its choices, with NoChoice none, or one that is empty; and an
\* index if its delta holds a tool call.  To keep the lines few only one of the
\* choices says something.
Chunks == {c \in [kind : {"chunk"}, first : {NoChoice} \cup Choices,
                  second : {NoChoice} \cup Choices, indexed : BOOLEAN] :
             /\ c.second = NoChoice \/ c.first.doc = Nothing
             /\ c.indexed \/ c.first.doc["tool_calls[].function.name"] # "absent"}

\* A line that does not begin with exactly "data: ": a comment, the name of an
\* event, an empty line, or a choice all the same, as in "data:{...}".
VerbatimLines == [kind : {"verbatim"}, first : {NoChoice} \cup Choices]

\* The lines of a server-sent event stream: a chunk, [DONE], a line without
\* "data: ", data, choices or a delta that is not the JSON it should be; for
\* Chutes the events of its protocol.
Lines ==
  IF how.prot = "chutes"
    THEN Simple({"done", "comment", "junk", "usage", "error"})
         \cup [kind : {"init"}, seal : {"sealed", "forged", "bad"}]
         \cup [kind : {"e2e"}, seal : {"sealed", "forged"}, n : 1 .. Limit]
  ELSE IF ~Fields THEN Simple({"done", "comment", "chunk"})
  ELSE Simple({"done", "junk"}) \cup VerbatimLines \cup Chunks

\* One read by the scanner, with what is left of the body.
Line(l) == [res |-> "line", line |-> l]
EOF == [res |-> "eof"]
ReadError == [res |-> "error"]

\* ehbpResponseReader.Read: chunk number n opens only as the one expected; a
\* body cut at or inside a length prefix is the end, anything else an error.
Frame == [seal : {"sealed", "forged"}, n : 1 .. Limit + 1, line : Lines]
Open(f) ==
  IF reads < ChunkLimit /\ f.seal = "sealed" /\ f.n = reads + 1 THEN Line(f.line) ELSE ReadError

\* What one read can yield: [result, the chunk number that was read].
Scans ==
  {<<EOF, 0>>, <<ReadError, 0>>} \cup
  (IF reads = Limit THEN {}
   ELSE IF how.prot = "ehbp" THEN {<<Open(f), f.n>> : f \in Frame}
   ELSE {<<Line(l), 0>> : l \in Lines})

(***************************************************************************)
(* The exchange                                                            *)
(***************************************************************************)
NoAnswer == [hdr |-> 0, parts |-> <<>>]

\* The exchange has its types: no body with an unsealed error is ever kept for
\* sending, and no relay reads past its bound.
TypeOK ==
  /\ how \in Hows
  /\ pc \in {"encrypt", "send", "unwrap", "relay", "returned", "done"}
  /\ body = None \/ \A p \in DOMAIN body : body[p] \in Leaf
  /\ attempt \in 1 .. MaxAttempts
  /\ reads \in 0 .. Limit
  /\ key \in {"none", "good", "wrong"}
  /\ got \in Seq(Part)
  /\ client.hdr \in 0 .. 2 /\ client.parts \in Seq(Part)
  /\ err \in {"none", "nil", "encrypt", "relay", "decrypt"}
  /\ {usable, opened} \subseteq BOOLEAN

Init ==
  /\ how \in Hows
  /\ pc = "encrypt" /\ body = None /\ attempt = 1 /\ reads = 0 /\ key = "none"
  /\ got = <<>> /\ client = NoAnswer /\ err = "none" /\ usable = FALSE /\ opened = FALSE

\* The Chutes and EHBP encryptors seal the whole body.
Sealed(b) ==
  CASE how.prot = "plain" -> b
    [] how.prot \in FullBody -> [p \in DOMAIN b |-> "sealed"]
    [] OTHER -> EncryptRequest(how.prot, how.ep, b)

\* EncryptRequest of the provider; a request that cannot be sealed is refused.
Encrypt ==
  /\ pc = "encrypt"
  /\ \E b \in Bodies[how.ep] :
       \/ /\ Fields /\ (~Supports(how.prot, how.ep) \/ Fails(Sealed(b)))
          /\ pc' = "done" /\ err' = "encrypt" /\ client' = [client EXCEPT !.hdr = 1]
          /\ UNCHANGED body
       \/ /\ ~Fields \/ (Supports(how.prot, how.ep) /\ ~Fails(Sealed(b)))
          /\ body' = Sealed(b)
          /\ pc' = "send" /\ UNCHANGED <<err, client>>
  /\ UNCHANGED <<how, attempt, reads, key, got, usable, opened>>

\* The POST; its failures are those of ProxyRequest.
Send ==
  /\ pc = "send"
  /\ body' = None
  /\ pc' = IF how.prot = "ehbp" THEN "unwrap" ELSE "relay"
  /\ UNCHANGED <<how, attempt, reads, key, got, client, err, usable, opened>>

Returns(e) == pc' = "returned" /\ err' = e

\* http.Error: the headers are sent, unless they already were.
HTTPError(e) == Returns(e) /\ client' = [client EXCEPT !.hdr = @ + 1]

\* unwrapEHBPResponse: without a well-formed Ehbp-Response-Nonce the answer
\* cannot be opened.
Unwrap ==
  /\ pc = "unwrap"
  /\ \/ pc' = "relay" /\ UNCHANGED <<client, err>>
     \/ HTTPError("decrypt")
  /\ UNCHANGED <<how, body, attempt, reads, key, got, usable, opened>>

(***************************************************************************)
(* RelayStream                                                             *)
(***************************************************************************)

\* relayResponse: which relay function serves the request.
Streams == how.stream /\ how.prot # "chutes"
Reassembles == Fields /\ how.ep = "chat" /\ ~how.stream
ReadsWhole == ~how.stream /\ how.prot # "chutes" /\ ~Reassembles

\* Headers are written when the first line is there; then the part.
Write(part) == client' = [hdr |-> IF client.hdr = 0 THEN 1 ELSE client.hdr,
                          parts |-> Append(client.parts, part)]
HeadersOnly == client' = [client EXCEPT !.hdr = IF @ = 0 THEN 1 ELSE @]

Opens(doc) == \E p \in DOMAIN doc : doc[p] = "opened"

\* relaySSELine, on a chunk that is decrypted with the session of the request.
DecryptedLine(l) ==
  LET d == DecryptChoice(how.prot, how.ep, l.first) IN
  \/ /\ Fails(d.doc)
     /\ Returns("decrypt") /\ HeadersOnly /\ UNCHANGED opened
  \/ /\ ~Fails(d.doc)
     /\ Write(Decrypted(d, l.second, NoItem))
     /\ opened' = (opened \/ Opens(d.doc))
     /\ UNCHANGED <<pc, err>>

\* relaySSELine: lines without "data: " and, without a session, data pass
\* through as they are.
StreamLine(l, n) ==
  \/ /\ l.kind = "done"
     /\ Returns("nil") /\ HeadersOnly /\ UNCHANGED opened
  \/ /\ Fields /\ l.kind = "verbatim"
     /\ Write(Verbatim(l.first)) /\ UNCHANGED <<pc, err, opened>>
  \/ /\ ~Fields /\ l.kind # "done"
     /\ Write(Blank(n, how.prot = "ehbp"))
     /\ opened' = (opened \/ how.prot = "ehbp") /\ UNCHANGED <<pc, err>>
  \/ /\ Fields /\ l.kind = "junk"
     /\ Returns("decrypt") /\ HeadersOnly /\ UNCHANGED opened
  \/ /\ Fields /\ l.kind = "chunk" /\ DecryptedLine(l)

RelayStream ==
  /\ pc = "relay" /\ Streams
  /\ \E s \in Scans :
       \/ /\ s[1].res = "line"
          /\ StreamLine(s[1].line, s[2]) /\ reads' = reads + 1
       \/ /\ s[1].res # "line" /\ client.hdr = 0
          /\ HTTPError("relay") /\ UNCHANGED <<reads, opened>>
       \/ /\ s[1].res # "line" /\ client.hdr > 0
          /\ Returns(IF s[1].res = "eof" THEN "nil" ELSE "relay")
          /\ UNCHANGED <<client, reads, opened>>
  /\ UNCHANGED <<how, body, attempt, key, got, usable>>

(***************************************************************************)
(* RelayReassembledNonStream                                               *)
(***************************************************************************)

\* The stream has ended: an answer without a chunk, or whose last chunk has no
\* usable id, model and time, is an error.
Reassembled ==
  \/ HTTPError("decrypt")
  \/ got # <<>> /\ Returns("nil") /\ client' = [hdr |-> 1, parts |-> got]

\* A chunk without a delta adds nothing, and a line without "data: " is skipped.
ReassembleLine(l) ==
  LET d == IF l.first.has THEN ReassembleDelta(how.prot, how.ep, l.first.doc, l.indexed) ELSE Nothing IN
  \/ /\ l.kind = "verbatim"
     /\ UNCHANGED <<pc, err, client, got, opened>>
  \/ /\ l.kind = "done"
     /\ Reassembled /\ UNCHANGED <<got, opened>>
  \/ /\ l.kind = "junk" \/ (l.kind = "chunk" /\ Fails(d))
     /\ HTTPError("decrypt") /\ UNCHANGED <<got, opened>>
  \/ /\ l.kind = "chunk" /\ ~Fails(d)
     /\ got' = Append(got, Decrypted([has |-> TRUE, doc |-> d], NoChoice, NoItem))
     /\ opened' = (opened \/ Opens(d))
     /\ UNCHANGED <<pc, err, client>>

\* Every failure of the reassembly, a read error too, is a decryption failure.
RelayReassembled ==
  /\ pc = "relay" /\ Reassembles
  /\ \E s \in Scans :
       \/ /\ s[1].res = "line"
          /\ ReassembleLine(s[1].line) /\ reads' = reads + 1
       \/ /\ s[1].res = "eof"
          /\ Reassembled /\ UNCHANGED <<reads, got, opened>>
       \/ /\ s[1].res = "error"
          /\ HTTPError("decrypt") /\ UNCHANGED <<reads, got, opened>>
  /\ UNCHANGED <<how, body, attempt, key, usable>>

(***************************************************************************)
(* RelayNonStreamForEndpoint                                               *)
(***************************************************************************)

\* Without a session: io.ReadAll, through the EHBP reader if there is one.
RelayPlain ==
  /\ pc = "relay" /\ ReadsWhole /\ ~Fields
  /\ \E s \in Scans :
       \/ /\ s[1].res = "line"
          /\ got' = Append(got, Blank(s[2], how.prot = "ehbp")) /\ reads' = reads + 1
          /\ opened' = (opened \/ how.prot = "ehbp")
          /\ UNCHANGED <<pc, err, client>>
       \/ /\ s[1].res = "eof"
          /\ Returns("nil") /\ client' = [hdr |-> 1, parts |-> got]
          /\ UNCHANGED <<reads, got, opened>>
       \/ /\ s[1].res = "error"
          /\ HTTPError("relay") /\ UNCHANGED <<reads, got, opened>>
  /\ UNCHANGED <<how, body, attempt, key, usable>>

\* With one, every choice and the data of the endpoint are decrypted.
RelayWhole ==
  /\ pc = "relay" /\ ReadsWhole /\ Fields
  /\ \/ HTTPError("relay") /\ UNCHANGED opened        \* the body cannot be read
     \/ HTTPError("decrypt") /\ UNCHANGED opened      \* it is not the JSON it should be
     \/ \E c1, c2 \in Choices, i \in Data(Items) :
          LET d1 == DecryptChoice(how.prot, how.ep, c1)
              d2 == DecryptChoice(how.prot, how.ep, c2)
              d == DecryptNonStreamResponse(how.prot, how.ep, i)
              fails == Fails(d1.doc) \/ Fails(d2.doc) \/ Fails(d)
          IN \/ fails /\ HTTPError("decrypt") /\ UNCHANGED opened
             \/ /\ ~fails
                /\ Returns("nil") /\ Write(Decrypted(d1, d2, d))
                /\ opened' = (Opens(d1.doc) \/ Opens(d2.doc) \/ Opens(d))
  /\ UNCHANGED <<how, body, attempt, reads, key, got, usable>>

(***************************************************************************)
(* The Chutes relays, which leave the client alone until the first chunk   *)
(***************************************************************************)

\* handleChutesInit: decapsulation never fails on a ciphertext of the right
\* size, it derives a key that opens nothing.
Decapsulated(seal) == IF seal = "sealed" THEN "good" ELSE "wrong"

\* handleChutesChunk: DecryptStreamChunkChutes with the stream key.
OpensChunk(l) == key = "good" /\ l.seal = "sealed"

\* WriteSSEError only if the headers were written.
ChutesLine(l) ==
  \/ /\ l.kind \in {"comment", "usage"}
     /\ UNCHANGED <<pc, err, client, key, opened>>
  \/ /\ l.kind = "done"
     /\ Returns("nil") /\ UNCHANGED <<client, key, opened>>
  \/ /\ \/ l.kind \in {"junk", "error"}
        \/ l.kind = "init" /\ l.seal = "bad"
        \/ l.kind = "e2e" /\ (key = "none" \/ ~OpensChunk(l))
     /\ Returns("decrypt") /\ UNCHANGED <<client, key, opened>>
  \/ /\ l.kind = "init" /\ l.seal # "bad"
     /\ key' = Decapsulated(l.seal) /\ UNCHANGED <<pc, err, client, opened>>
  \/ /\ l.kind = "e2e" /\ key # "none" /\ OpensChunk(l)
     /\ Write(Blank(l.n, l.seal = "sealed" /\ key = "good"))
     /\ opened' = TRUE /\ UNCHANGED <<pc, err, key>>

RelayStreamChutes ==
  /\ pc = "relay" /\ how.prot = "chutes" /\ how.stream
  /\ \E s \in Scans :
       \/ /\ s[1].res = "line"
          /\ ChutesLine(s[1].line) /\ reads' = reads + 1
       \/ /\ s[1].res # "line"
          /\ Returns(IF s[1].res = "eof" THEN "nil" ELSE "relay")
          /\ UNCHANGED <<client, key, reads, opened>>
  /\ UNCHANGED <<how, body, attempt, got, usable>>

RelayNonStreamChutes ==
  /\ pc = "relay" /\ how.prot = "chutes" /\ ~how.stream
  /\ \/ HTTPError("relay") /\ UNCHANGED opened          \* the body cannot be read
     \/ Returns("decrypt") /\ UNCHANGED <<client, opened>>
     \/ Returns("nil") /\ Write(Blank(0, TRUE)) /\ opened' = TRUE
  /\ UNCHANGED <<how, body, attempt, reads, key, got, usable>>

(***************************************************************************)
(* relayWithRetry after the relay                                          *)
(***************************************************************************)
\* mutant: a retry although the client has seen the start of an answer
MayAlwaysRetry == how.prot = "chutes" /\ attempt < MaxAttempts

MayRetry == how.prot = "chutes" /\ attempt < MaxAttempts /\ client.hdr = 0

\* A Chutes decryption failure before the headers goes to another instance.
Retry ==
  /\ pc = "returned" /\ err = "decrypt" /\ MayRetry
  /\ attempt' = attempt + 1 /\ pc' = "encrypt"
  /\ reads' = 0 /\ key' = "none" /\ got' = <<>> /\ err' = "none" /\ opened' = FALSE
  /\ UNCHANGED <<how, body, client, usable>>

\* Otherwise the outcome is final: success promotes e2ee_usable, a failure the
\* client has not seen is reported now.
Conclude ==
  /\ pc = "returned" /\ ~(err = "decrypt" /\ MayRetry)
  /\ pc' = "done"
  /\ usable' = (err = "nil" /\ how.prot # "plain")
  /\ client' = [client EXCEPT !.hdr = IF err # "nil" /\ @ = 0 THEN 1 ELSE @]
  /\ UNCHANGED <<how, body, attempt, reads, key, got, err, opened>>

Next == \/ Encrypt \/ Send \/ Unwrap \/ RelayStream \/ RelayReassembled \/ RelayPlain \/ RelayWhole
        \/ RelayStreamChutes \/ RelayNonStreamChutes \/ Retry \/ Conclude

Spec == Init /\ [][Next]_vars

(***************************************************************************)
(* Properties                                                              *)
(***************************************************************************)

\* A choice, or the data of an answer, in which every field that the session's
\* policy wants sealed was sealed for this session, or says nothing.
Authentic(doc) ==
  \A p \in DOMAIN doc :
    IsResponseFieldEncrypted(how.prot, p, how.ep)
      => doc[p] \in Missing \cup {"empty", "opened"}

\* The data of the endpoint that was asked for.
ItemOf(doc) == [p \in {q \in ItemPaths : ItemLeaf(how.ep, q) /\ q \notin {"document", "data[].score"}}
                  |-> doc[p]]

\* What the decryption answers for in a part: the first choice of a chunk and
\* every choice of a whole answer, if it has its delta or message, and the data.
\* A verbatim line is none of it, and only a stream has one.
PartAuthentic(part) ==
  /\ part.verbatim => Streams
  /\ ~part.verbatim =>
       /\ part.first.has => Authentic(part.first.doc)
       /\ ReadsWhole => /\ part.second.has => Authentic(part.second.doc)
                        /\ Authentic(ItemOf(part.item))

\* Whatever the upstream sends, what reaches the client was sealed for this
\* request: each field the policy wants sealed in the first delta of a stream's
\* chunk, in everything that is reassembled, and in all messages and the data
\* of a whole answer; each chunk of a Chutes stream; each chunk of an EHBP
\* body, and these in the order in which the enclave sent them, none missing
\* before the end.  It says nothing of what the relay copies without a look:
\* the lines of a stream without "data: ", its second choices, and the logprobs
\* of a choice that has no delta or message.
DeliveredIsAuthentic ==
  \A i \in DOMAIN client.parts :
    LET part == client.parts[i] IN
    /\ Fields => PartAuthentic(part)
    /\ how.prot \in FullBody => part.sealed
    /\ how.prot = "ehbp" => part.n = i

\* The client gets one answer: from one attempt, never a second header, and
\* when the exchange is over always one, except for a Chutes stream that ended
\* before its first chunk, which counts as a success.
OneAnswer ==
  /\ client.hdr <= 1
  /\ \A i \in DOMAIN client.parts : client.parts[i].att = attempt
  /\ pc = "done" => \/ client.hdr = 1
                    \/ how.prot = "chutes" /\ how.stream /\ err = "nil" /\ client.parts = <<>>

\* The text of a request that this protocol seals: with Venice the content of
\* the messages, with NEAR every path that EncryptRequest looks at.  Fields
\* that it does not look at, such as a sampling parameter, the metadata of a
\* rerank or a field it does not know, stay in the clear and are not in a body.
UserText == IF how.prot = "venice" THEN {"content", "content[]"}
            ELSE DOMAIN body \ {"model", "role"}

\* No request of an encrypting provider leaves with such a text in the clear,
\* whatever the types of the JSON values in which the client sent it.
SentSealed ==
  body # None /\ how.prot # "plain"
    => \A p \in DOMAIN body \cap UserText : body[p] \in Missing \cup {"sealed"}

\* report.go: MarkE2EEUsable "must only be called when E2EE was actually used
\* for a live request and the response was successfully decrypted".
UsableMeansDecrypted == usable => opened

(***************************************************************************)
(* The inductive invariant                                                 *)
(***************************************************************************)

\* A part that this attempt may give to the client.
GoodPart(part) ==
  /\ part.att = attempt
  /\ Fields => PartAuthentic(part)
  /\ how.prot \in FullBody => part.sealed

PartsInv == /\ \A i \in DOMAIN client.parts : GoodPart(client.parts[i])
            /\ \A i \in DOMAIN got : GoodPart(got[i])

\* The chunks of an EHBP body are counted by the reads, each in its place.
NumberInv ==
  how.prot = "ehbp" =>
    /\ \A i \in DOMAIN client.parts : client.parts[i].n = i
    /\ \A i \in DOMAIN got : got[i].n = i
    /\ pc = "relay" => reads = IF how.stream THEN Len(client.parts) ELSE Len(got)

\* Only a relay that streams gives the client something before it returns.
AnswerInv ==
  /\ client \in [hdr : {0, 1}, parts : Seq(Part)]
  /\ client.hdr = 0 => client.parts = <<>>
  /\ pc \in {"encrypt", "send", "unwrap"} => client.hdr = 0 /\ reads = 0 /\ got = <<>>
  /\ pc = "relay" /\ ~how.stream => client.hdr = 0
  /\ pc \in {"returned", "done"} /\ err = "nil" /\ client.hdr = 0
       => how.prot = "chutes" /\ how.stream
  /\ pc = "done" => client.hdr = 1 \/ err = "nil"

Inv == TypeOK /\ PartsInv /\ NumberInv /\ AnswerInv /\ SentSealed

=============================================================================
