----------------------------- MODULE RelayProofs ----------------------------
(***************************************************************************)
(* Proofs of the safety properties of Relay, for answers of every length,  *)
(* every set of messages and every number of attempts.                     *)
(***************************************************************************)
EXTENDS Relay, SequenceTheorems, TLAPS

(***************************************************************************)
(* What the field-level decryption lets through                            *)
(***************************************************************************)

\* Values that a field which has to be sealed may have after decryption.
Clean == Missing \cup {"empty", "opened"}

LEMMA DecryptFieldEffect ==
  ASSUME NEW required \in BOOLEAN, NEW v \in Leaf
  PROVE  LET d == DecryptFieldOrSkip(required, v) IN
         /\ d \in Leaf \cup {"opened", "error"}
         /\ required /\ d # "error" => d \in Clean
BY DEF DecryptFieldOrSkip, Leaf, Missing, Clean

LEMMA PolicyIsBoolean ==
  \A prot, p, ep : IsResponseFieldEncrypted(prot, p, ep) \in BOOLEAN
BY DEF IsResponseFieldEncrypted

LEMMA DecryptLeafEffect ==
  ASSUME NEW prot, NEW ep, NEW p, NEW v \in Leaf
  PROVE  /\ DecryptLeaf(prot, ep, p, v) \in Leaf \cup {"opened", "error"}
         /\ IsResponseFieldEncrypted(prot, p, ep) /\ DecryptLeaf(prot, ep, p, v) # "error"
              => DecryptLeaf(prot, ep, p, v) \in Clean
BY PolicyIsBoolean, DecryptFieldEffect DEF DecryptLeaf

\* One field of a message: its type, and that nothing which had to be sealed
\* comes out of decryptChatObject unless it was sealed or says nothing.
LEMMA ChatFieldEffect ==
  ASSUME NEW prot, NEW ep, NEW m \in Message, NEW p \in ChatPaths \ LogprobsPaths
  PROVE  LET d == DecryptChatObject(prot, ep, m) IN
         /\ d[p] \in Leaf \cup {"opened", "error"}
         /\ IsResponseFieldEncrypted(prot, p, ep) /\ d[p] # "error" => d[p] \in Clean
<1> DEFINE d == DecryptChatObject(prot, ep, m)
           enc(x) == IsResponseFieldEncrypted(prot, x, ep)
<1>1. m[p] \in Leaf
  BY DEF Message
<1>2. CASE p \in NonEncryptedFields
  <2>1. p = "role"
    BY <1>2 DEF ChatPaths, NonEncryptedFields
  <2>2. d[p] = m[p]
    BY <1>2, <2>1 DEF DecryptChatObject, NonEncryptedFields, Containers, LogprobsPaths
  <2>3. ~enc(p)
    BY <2>1 DEF IsResponseFieldEncrypted, NonEncryptedFields
  <2> QED
    BY <1>1, <2>2, <2>3
<1>3. CASE p \in {"content", "refusal"}
  <2>1. d[p] = DecryptLeaf(prot, ep, p, m[p])
    BY <1>3 DEF DecryptChatObject, NonEncryptedFields, Containers, LogprobsPaths
  <2> QED
    BY <1>1, <2>1, DecryptLeafEffect
<1>4. CASE p = "content[].text"
  <2>1. d[p] = DecryptParts(prot, ep, m[p])
    BY <1>4 DEF DecryptChatObject, NonEncryptedFields, Containers, LogprobsPaths
  <2>2. \/ d[p] = m[p] /\ (m[p] = "absent" \/ ~enc(p))
        \/ d[p] = DecryptLeaf(prot, ep, p, m[p])
        \/ d[p] = "error"
    BY <1>4, <2>1 DEF DecryptParts
  <2> QED
    BY <1>1, <2>2, DecryptLeafEffect DEF Clean, Missing
<1>5. CASE p \in Containers
  <2>1. d[p] = DecryptContainer(prot, ep, p, m[p])
    BY <1>5 DEF DecryptChatObject, NonEncryptedFields, Containers, LogprobsPaths
  <2>2. d[p] = m[p] \/ d[p] = "error"
    BY <2>1 DEF DecryptContainer
  <2>3. ~enc(p)
    BY <1>5 DEF IsResponseFieldEncrypted, Containers
  <2> QED
    BY <1>1, <2>2, <2>3
<1>6. CASE p \notin NonEncryptedFields \cup Containers \cup {"content", "refusal", "content[].text"}
  <2>1. d[p] = DecryptNested(prot, ep, p, m[p])
    BY <1>6 DEF DecryptChatObject
  <2> QED
    BY <1>1, <2>1, DecryptLeafEffect DEF DecryptNested
<1> QED
  BY <1>2, <1>3, <1>4, <1>5, <1>6

\* The same for a choice with its logprobs, which decryptChatObject leaves to
\* decryptChoiceLogprobs.
LEMMA ChoiceFieldEffect ==
  ASSUME NEW prot, NEW ep, NEW m \in Message, NEW p \in ChatPaths
  PROVE  LET d == DecryptChoiceLogprobs(prot, ep, DecryptChatObject(prot, ep, m)) IN
         /\ d[p] \in Leaf \cup {"opened", "error"}
         /\ IsResponseFieldEncrypted(prot, p, ep) /\ d[p] # "error" => d[p] \in Clean
<1> DEFINE o == DecryptChatObject(prot, ep, m)
           d == DecryptChoiceLogprobs(prot, ep, o)
<1>1. m[p] \in Leaf
  BY DEF Message
<1>2. CASE p \notin LogprobsPaths
  <2>1. d[p] = o[p]
    BY <1>2 DEF DecryptChoiceLogprobs, LogprobsPaths
  <2> QED
    BY <1>2, <2>1, ChatFieldEffect
<1>3. CASE p \in LogprobsPaths
  <2>1. o[p] = m[p]
    BY <1>3 DEF DecryptChatObject, LogprobsPaths, NonEncryptedFields, Containers
  <2> HIDE DEF o
  <2>2. CASE p = "logprobs.content[].token"
    <3>1. d[p] = DecryptNested(prot, ep, p, m[p])
      BY <2>1, <2>2 DEF DecryptChoiceLogprobs
    <3> QED
      BY <1>1, <3>1, DecryptLeafEffect DEF DecryptNested, o
  <2>3. CASE p = "logprobs"
    <3>1. d[p] = m[p]
      BY <2>1, <2>3 DEF DecryptChoiceLogprobs
    <3>2. ~IsResponseFieldEncrypted(prot, p, ep)
      BY <2>3 DEF IsResponseFieldEncrypted, Containers
    <3> QED
      BY <1>1, <3>1, <3>2 DEF o
  <2> QED
    BY <1>3, <2>2, <2>3 DEF LogprobsPaths
<1> QED
  BY <1>2, <1>3

\* A choice with a delta or message that is accepted is authentic; one without
\* is what it was.
LEMMA ChoiceAuthentic ==
  ASSUME NEW c, c.has \in BOOLEAN, c.doc \in Message, ~Fails(DecryptChoice(how.prot, how.ep, c).doc)
  PROVE  LET d == DecryptChoice(how.prot, how.ep, c) IN
         d \in GivenChoice /\ (d.has => Authentic(d.doc))
<1> DEFINE g == DecryptChoice(how.prot, how.ep, c)
           d == DecryptChoiceLogprobs(how.prot, how.ep, DecryptChatObject(how.prot, how.ep, c.doc))
<1>1. CASE c.has
  <2>1. g = [has |-> c.has, doc |-> d] /\ ~Fails(d)
    BY <1>1 DEF DecryptChoice
  <2>2. d = [p \in ChatPaths |-> d[p]] /\ DOMAIN d = ChatPaths
    BY DEF DecryptChoiceLogprobs
  <2>3. \A p \in ChatPaths : d[p] # "error"
    BY <2>1, <2>2 DEF Fails
  <2>4. \A p \in ChatPaths : /\ d[p] \in Leaf \cup {"opened", "error"}
                             /\ IsResponseFieldEncrypted(how.prot, p, how.ep) /\ d[p] # "error" => d[p] \in Clean
    BY ChoiceFieldEffect
  <2> HIDE DEF d
  <2>5. d \in [ChatPaths -> Leaf \cup {"opened"}]
    BY <2>2, <2>3, <2>4
  <2>6. Authentic(d)
    BY <2>2, <2>3, <2>4 DEF Authentic, Clean
  <2> QED
    BY <2>1, <2>5, <2>6 DEF GivenChoice
<1>2. CASE ~c.has
  <2>1. g = [has |-> c.has, doc |-> c.doc]
    BY <1>2 DEF DecryptChoice
  <2>2. c.doc \in [ChatPaths -> Leaf \cup {"opened"}]
    BY DEF Message
  <2> QED
    BY <1>2, <2>1, <2>2 DEF GivenChoice
<1> QED
  BY <1>1, <1>2

\* So is what the reassembly of a stream takes from a delta.
LEMMA DeltaAuthentic ==
  ASSUME NEW m \in Message, NEW indexed, ~Fails(ReassembleDelta(how.prot, how.ep, m, indexed))
  PROVE  /\ ReassembleDelta(how.prot, how.ep, m, indexed) \in [ChatPaths -> Leaf \cup {"opened"}]
         /\ Authentic(ReassembleDelta(how.prot, how.ep, m, indexed))
<1> DEFINE d == DecryptChatObject(how.prot, how.ep, m)
           g == ReassembleDelta(how.prot, how.ep, m, indexed)
<1>1. g = [p \in ChatPaths |-> g[p]] /\ DOMAIN g = ChatPaths
  BY DEF ReassembleDelta
<1>2. \A p \in ChatPaths : g[p] # "error"
  BY <1>1 DEF Fails
<1>3. \A p \in ChatPaths \ LogprobsPaths :
        /\ d[p] \in Leaf \cup {"opened", "error"}
        /\ IsResponseFieldEncrypted(how.prot, p, how.ep) /\ d[p] # "error" => d[p] \in Clean
  BY ChatFieldEffect
<1>4. \A p \in ChatPaths : \/ g[p] = "error"
                           \/ g[p] = "absent"
                           \/ p \notin LogprobsPaths /\ g[p] = d[p] /\ d[p] # "error"
  <2> TAKE p \in ChatPaths
  <2>1. p \in LogprobsPaths => p \notin DeltaStrings /\ p # "tool_calls[].function.name"
    BY DEF DeltaStrings, LogprobsPaths
  <2> HIDE DEF d
  <2>2. d[p] = "error" => g[p] = "error"
    BY DEF ReassembleDelta, d
  <2>3. g[p] \in {"error", "absent", d[p]} /\ (p \in LogprobsPaths => g[p] \in {"error", "absent"})
    BY <2>1 DEF ReassembleDelta, d
  <2> QED
    BY <2>2, <2>3
<1> HIDE DEF d, g
<1>5. \A p \in ChatPaths : /\ g[p] \in Leaf \cup {"opened"}
                           /\ IsResponseFieldEncrypted(how.prot, p, how.ep) => g[p] \in Clean
  BY <1>2, <1>3, <1>4 DEF Leaf, Clean, Missing
<1>6. g \in [ChatPaths -> Leaf \cup {"opened"}]
  BY <1>1, <1>5
<1>7. Authentic(g)
  BY <1>1, <1>5 DEF Authentic, Clean
<1> QED
  BY <1>6, <1>7 DEF g

\* And the data of the endpoint that was asked for.
LEMMA ItemAuthentic ==
  ASSUME NEW data, data.has \in BOOLEAN, data.doc \in [ItemPaths -> Leaf], how.ep \in Endpoints,
         ~data.has => \A p \in ItemPaths \ {"score"} : data.doc[p] = "absent",
         ~Fails(DecryptNonStreamResponse(how.prot, how.ep, data))
  PROVE  /\ DecryptNonStreamResponse(how.prot, how.ep, data) \in [ItemPaths -> Leaf \cup {"opened"}]
         /\ Authentic(ItemOf(DecryptNonStreamResponse(how.prot, how.ep, data)))
<1> DEFINE m == data.doc
           d == DecryptNonStreamResponse(how.prot, how.ep, data)
           enc(x) == IsResponseFieldEncrypted(how.prot, x, how.ep)
<1>1. d = [p \in ItemPaths |-> d[p]] /\ DOMAIN d = ItemPaths
  BY DEF DecryptNonStreamResponse
<1>2. \A p \in ItemPaths : d[p] # "error"
  BY <1>1 DEF Fails
<1>3. ASSUME NEW p \in ItemPaths PROVE d[p] \in Leaf \cup {"opened", "error"}
  <2>1. m[p] \in Leaf /\ m["results[].document.text"] \in Leaf
    BY DEF ItemPaths
  <2>2. d[p] = m[p] \/ d[p] = "error" \/ \E x : d[p] = DecryptLeaf(how.prot, how.ep, x, m[p])
    BY DEF DecryptNonStreamResponse, DecryptItem
  <2> QED
    BY <2>1, <2>2, DecryptLeafEffect
<1>4. ASSUME NEW p \in ItemPaths, ItemLeaf(how.ep, p), p \notin {"document", "data[].score"}, enc(p)
      PROVE  d[p] \in Clean
  <2>1. m[p] \in Leaf
    OBVIOUS
  <2>2. p # "score"
    BY <1>4 DEF ItemLeaf, Endpoints
  <2>3. data.has => d[p] = DecryptItem(how.prot, how.ep, p, m[p], m["results[].document.text"])
    BY <1>4, <2>2 DEF DecryptNonStreamResponse
  <2>4. ~data.has => d[p] = m[p] /\ m[p] = "absent"
    BY <1>4, <2>2 DEF DecryptNonStreamResponse
  <2>5. d[p] = "error" \/ (d[p] = m[p] /\ m[p] = "absent") \/ d[p] = DecryptLeaf(how.prot, how.ep, p, m[p])
    BY <1>4, <2>3, <2>4 DEF DecryptItem
  <2> QED
    BY <1>2, <1>4, <2>1, <2>5, DecryptLeafEffect DEF Clean, Missing
<1> HIDE DEF d
<1>5. d \in [ItemPaths -> Leaf \cup {"opened"}]
  BY <1>1, <1>2, <1>3
<1>6. Authentic(ItemOf(d))
  BY <1>4 DEF Authentic, ItemOf, Clean
<1> QED
  BY <1>5, <1>6 DEF d

(***************************************************************************)
(* Parts of an answer                                                      *)
(***************************************************************************)

LEMMA HowParts ==
  ASSUME how \in Hows
  PROVE  /\ how.prot \in Protocols /\ how.ep \in Endpoints /\ how.stream \in BOOLEAN
         /\ (how.ep # "chat" => how.prot = "near" /\ ~how.stream)
         /\ Limit \in Nat
<1>1. how \in How
  BY HowsAssumption
<1>2. how.prot \in Protocols /\ how.ep \in Endpoints /\ how.stream \in BOOLEAN
  BY <1>1 DEF How
<1>3. Limit \in Nat
  BY <1>2, RelayBounds DEF Limit
<1> QED
  BY <1>2, <1>3, HowsAssumption

LEMMA NothingGiven ==
  /\ Nothing \in Message /\ NoChoice \in GivenChoice /\ ~NoChoice.has
  /\ NoItem \in [ItemPaths -> Leaf \cup {"opened"}]
  /\ Authentic(Nothing) /\ Authentic(ItemOf(NoItem))
<1>1. Nothing \in Message /\ Nothing \in [ChatPaths -> Leaf \cup {"opened"}]
  BY DEF Nothing, Message, Leaf
<1>2. NoChoice \in GivenChoice /\ ~NoChoice.has
  BY <1>1 DEF NoChoice, GivenChoice
<1>3. NoItem \in [ItemPaths -> Leaf \cup {"opened"}]
  BY DEF NoItem, Leaf
<1>4. Authentic(Nothing)
  BY DEF Authentic, Nothing, Missing
<1>5. Authentic(ItemOf(NoItem))
  BY DEF Authentic, ItemOf, NoItem, Missing
<1> QED
  BY <1>1, <1>2, <1>3, <1>4, <1>5

\* A choice of an upstream chunk, a line or an answer.
LEMMA ChoiceParts ==
  ASSUME NEW c \in {NoChoice} \cup Choices
  PROVE  c.has \in BOOLEAN /\ c.doc \in Message /\ c \in GivenChoice
<1>1. CASE c = NoChoice
  BY <1>1, NothingGiven DEF NoChoice
<1>2. CASE c \in Choices
  <2>1. c \in [has : BOOLEAN, doc : Deltas]
    BY <1>2 DEF Choices, Choice
  <2>2. c.doc \in Message /\ c.doc \in [ChatPaths -> Leaf \cup {"opened"}]
    BY <2>1, DeltasAssumption DEF Message
  <2> QED
    BY <2>1, <2>2 DEF GivenChoice
<1> QED
  BY <1>1, <1>2

\* The data of an upstream answer.
LEMMA DataParts ==
  ASSUME NEW data \in Data(Items)
  PROVE  /\ data.has \in BOOLEAN /\ data.doc \in [ItemPaths -> Leaf]
         /\ ~data.has => \A p \in ItemPaths \ {"score"} : data.doc[p] = "absent"
BY DeltasAssumption DEF Data

\* A part whose fields are what this attempt may give to the client.
LEMMA GivenPart ==
  ASSUME NEW x \in Part, x.att = attempt, how.prot \in FullBody => x.sealed,
         Fields /\ x.verbatim => Streams,
         Fields /\ ~x.verbatim =>
            /\ x.first.has => Authentic(x.first.doc)
            /\ ReadsWhole => /\ x.second.has => Authentic(x.second.doc)
                             /\ Authentic(ItemOf(x.item))
  PROVE  GoodPart(x)
BY DEF GoodPart, PartAuthentic

LEMMA BlankPart ==
  ASSUME attempt \in 1 .. MaxAttempts, NEW n \in 0 .. Limit, NEW sealed \in BOOLEAN,
         how.prot \in FullBody => sealed
  PROVE  Blank(n, sealed) \in Part /\ GoodPart(Blank(n, sealed)) /\ Blank(n, sealed).n = n
<1> DEFINE x == Blank(n, sealed)
<1>1. x \in Part /\ x.n = n /\ x.att = attempt /\ (how.prot \in FullBody => x.sealed)
  BY NothingGiven DEF Blank, Given, Part
<1>2. /\ x.verbatim = FALSE /\ x.first = NoChoice /\ x.second = NoChoice /\ x.item = NoItem
  BY DEF Blank, Given
<1> HIDE DEF x
<1> QED
  BY <1>1, <1>2, NothingGiven, GivenPart DEF x

\* A part that was decrypted field by field.
LEMMA DecryptedPart ==
  ASSUME attempt \in 1 .. MaxAttempts, 0 \in 0 .. Limit, Fields,
         NEW first \in GivenChoice, NEW second \in GivenChoice,
         NEW item \in [ItemPaths -> Leaf \cup {"opened"}],
         first.has => Authentic(first.doc),
         ReadsWhole => (second.has => Authentic(second.doc)) /\ Authentic(ItemOf(item))
  PROVE  LET x == Decrypted(first, second, item) IN x \in Part /\ GoodPart(x) /\ x.n = 0
<1> DEFINE x == Decrypted(first, second, item)
<1>1. x \in Part /\ x.n = 0 /\ x.att = attempt
  BY DEF Decrypted, Given, Part
<1>2. /\ x.verbatim = FALSE /\ x.first = first /\ x.second = second /\ x.item = item
  BY DEF Decrypted, Given
<1>3. how.prot \notin FullBody
  BY DEF Fields, FullBody
<1> HIDE DEF x
<1> QED
  BY <1>1, <1>2, <1>3, GivenPart DEF x

\* A line that was copied.
LEMMA VerbatimPart ==
  ASSUME attempt \in 1 .. MaxAttempts, 0 \in 0 .. Limit, Fields, Streams,
         NEW first \in GivenChoice
  PROVE  LET x == Verbatim(first) IN x \in Part /\ GoodPart(x) /\ x.n = 0
<1> DEFINE x == Verbatim(first)
<1>1. x \in Part /\ x.n = 0 /\ x.att = attempt
  BY NothingGiven DEF Verbatim, Given, Part
<1>2. x.verbatim = TRUE
  BY DEF Verbatim, Given
<1>3. how.prot \notin FullBody
  BY DEF Fields, FullBody
<1> HIDE DEF x
<1> QED
  BY <1>1, <1>2, <1>3, GivenPart DEF x

\* Sequences of good parts.
Good(ps) == ps \in Seq(Part) /\ \A i \in DOMAIN ps : GoodPart(ps[i])
Numbered(ps) == \A i \in DOMAIN ps : ps[i].n = i

LEMMA GoodAppend ==
  ASSUME NEW ps, Good(ps), NEW x \in Part, GoodPart(x)
  PROVE  /\ Good(Append(ps, x)) /\ Len(Append(ps, x)) = Len(ps) + 1 /\ Len(ps) \in Nat
         /\ Numbered(ps) /\ x.n = Len(ps) + 1 => Numbered(Append(ps, x))
<1>1. ps \in Seq(Part) /\ Len(ps) \in Nat /\ DOMAIN ps = 1 .. Len(ps)
  BY LenProperties DEF Good
<1>2. /\ Append(ps, x) \in Seq(Part) /\ Len(Append(ps, x)) = Len(ps) + 1
      /\ \A i \in DOMAIN Append(ps, x) : \/ i \in DOMAIN ps /\ Append(ps, x)[i] = ps[i]
                                         \/ i = Len(ps) + 1 /\ Append(ps, x)[i] = x
  BY <1>1
<1>3. Good(Append(ps, x))
  BY <1>2 DEF Good
<1>4. Numbered(ps) /\ x.n = Len(ps) + 1 => Numbered(Append(ps, x))
  BY <1>2 DEF Numbered
<1> QED
  BY <1>1, <1>2, <1>3, <1>4

LEMMA GoodEmpty == Good(<<>>) /\ Numbered(<<>>) /\ Len(<<>>) = 0
BY EmptySeq DEF Good, Numbered

\* What the invariant says while an answer is relayed.
LEMMA RelayFacts ==
  ASSUME Inv
  PROVE  /\ Good(got) /\ Good(client.parts)
         /\ how.prot = "ehbp" => /\ Numbered(got) /\ Numbered(client.parts)
                                 /\ pc = "relay" => reads = IF how.stream THEN Len(client.parts) ELSE Len(got)
         /\ attempt \in 1 .. MaxAttempts /\ reads \in 0 .. Limit /\ how \in Hows
         /\ client \in [hdr : {0, 1}, parts : Seq(Part)]
         /\ client.hdr = 0 => client.parts = <<>>
         /\ pc = "relay" /\ ~how.stream => client.hdr = 0
         /\ opened \in BOOLEAN /\ usable \in BOOLEAN /\ key \in {"none", "good", "wrong"}
BY DEF Inv, TypeOK, PartsInv, NumberInv, AnswerInv, Good, Numbered

\* What a step of a relay has to establish.
LEMMA RelayInv ==
  ASSUME Inv, pc = "relay", UNCHANGED <<how, body, attempt, usable>>,
         (pc' = "relay" /\ err' = err) \/ (pc' = "returned" /\ err' \in {"nil", "relay", "decrypt"}),
         reads' \in 0 .. Limit, key' \in {"none", "good", "wrong"}, opened' \in BOOLEAN,
         client' \in [hdr : {0, 1}, parts : Seq(Part)], Good(client'.parts), Good(got'),
         client'.hdr = 0 => client'.parts = <<>>,
         pc' = "relay" /\ ~how.stream => client'.hdr = 0,
         pc' = "returned" /\ err' = "nil" /\ client'.hdr = 0 => how.prot = "chutes" /\ how.stream,
         how.prot = "ehbp" => /\ Numbered(got') /\ Numbered(client'.parts)
                              /\ pc' = "relay" => reads' = IF how.stream THEN Len(client'.parts) ELSE Len(got')
  PROVE  Inv'
<1>1. Part' = Part /\ Limit' = Limit
  BY DEF Part, Limit
<1>2. TypeOK /\ SentSealed
  BY DEF Inv
<1>3. TypeOK'
  <2>1. client'.hdr \in 0 .. 2 /\ client'.parts \in Seq(Part') /\ got' \in Seq(Part')
    BY <1>1 DEF Good
  <2> QED
    BY <1>1, <1>2, <2>1 DEF TypeOK
<1>4. PartsInv'
  BY DEF PartsInv, GoodPart, PartAuthentic, Good, Authentic, ItemOf, Fields, Streams, ReadsWhole, Reassembles
<1>5. NumberInv'
  BY DEF NumberInv, Numbered
<1>6. AnswerInv'
  BY <1>1 DEF AnswerInv
<1>7. SentSealed'
  BY <1>2 DEF SentSealed, UserText
<1> QED
  BY <1>3, <1>4, <1>5, <1>6, <1>7 DEF Inv

\* A part is written.
LEMMA WriteEffect ==
  ASSUME Inv, NEW x \in Part, GoodPart(x), Write(x)
  PROVE  /\ client' \in [hdr : {0, 1}, parts : Seq(Part)] /\ client'.hdr = 1
         /\ client'.parts = Append(client.parts, x) /\ Good(client'.parts)
<1>1. Good(client.parts) /\ client.hdr \in {0, 1}
  BY RelayFacts
<1>2. Good(Append(client.parts, x))
  BY <1>1, GoodAppend
<1>3. client' = [hdr |-> 1, parts |-> Append(client.parts, x)]
  BY <1>1 DEF Write
<1> QED
  BY <1>2, <1>3 DEF Good

\* The headers are sent without a part.
LEMMA HeadersEffect ==
  ASSUME Inv, HeadersOnly \/ (client' = [client EXCEPT !.hdr = @ + 1] /\ client.hdr = 0)
  PROVE  /\ client' \in [hdr : {0, 1}, parts : Seq(Part)] /\ client'.hdr = 1
         /\ client'.parts = client.parts
<1>1. client \in [hdr : {0, 1}, parts : Seq(Part)]
  BY RelayFacts
<1> QED
  BY <1>1 DEF HeadersOnly

\* http.Error ends a relay that has not answered yet.
LEMMA ErrorInv ==
  ASSUME Inv, pc = "relay", client.hdr = 0, UNCHANGED <<how, body, attempt, usable, got>>,
         NEW e \in {"relay", "decrypt"}, HTTPError(e),
         reads' \in 0 .. Limit, key' \in {"none", "good", "wrong"}, opened' \in BOOLEAN
  PROVE  Inv'
<1>1. /\ client' \in [hdr : {0, 1}, parts : Seq(Part)] /\ client'.hdr = 1
      /\ client'.parts = client.parts /\ pc' = "returned" /\ err' = e
  BY HeadersEffect DEF HTTPError, Returns
<1> QED
  BY <1>1, RelayFacts, RelayInv

(***************************************************************************)
(* Reading an answer                                                       *)
(***************************************************************************)

\* What a line is made of.
LEMMA LineParts ==
  ASSUME NEW l \in Lines
  PROVE  /\ Fields => /\ l.kind \in {"done", "verbatim", "junk", "chunk"}
                      /\ l.kind \in {"chunk", "verbatim"} => l.first \in {NoChoice} \cup Choices
                      /\ l.kind = "chunk" => l.second \in {NoChoice} \cup Choices
         /\ how.prot = "chutes" /\ l.kind = "e2e" => l.n \in 1 .. Limit
<1>1. CASE how.prot = "chutes"
  <2>1. l \in Simple({"done", "comment", "junk", "usage", "error"})
          \cup [kind : {"init"}, seal : {"sealed", "forged", "bad"}]
          \cup [kind : {"e2e"}, seal : {"sealed", "forged"}, n : 1 .. Limit]
    BY <1>1 DEF Lines
  <2>2. l.kind = "e2e" => l \in [kind : {"e2e"}, seal : {"sealed", "forged"}, n : 1 .. Limit]
    BY <2>1 DEF Simple
  <2> QED
    BY <1>1, <2>2 DEF Fields
<1>2. CASE how.prot # "chutes" /\ Fields
  <2>1. l \in Simple({"done", "junk"}) \cup VerbatimLines \cup Chunks
    BY <1>2 DEF Lines
  <2>2. CASE l \in Simple({"done", "junk"})
    BY <1>2, <2>2 DEF Simple
  <2>3. CASE l \in VerbatimLines
    <3>1. l.kind = "verbatim" /\ l.first \in {NoChoice} \cup Choices
      BY <2>3 DEF VerbatimLines
    <3> QED
      BY <1>2, <3>1
  <2>4. CASE l \in Chunks
    <3>1. l \in [kind : {"chunk"}, first : {NoChoice} \cup Choices,
                 second : {NoChoice} \cup Choices, indexed : BOOLEAN]
      BY <2>4 DEF Chunks
    <3>2. /\ l.kind = "chunk" /\ l.first \in {NoChoice} \cup Choices
          /\ l.second \in {NoChoice} \cup Choices
      BY <3>1
    <3> QED
      BY <1>2, <3>2
  <2> QED
    BY <2>1, <2>2, <2>3, <2>4
<1>3. CASE how.prot # "chutes" /\ ~Fields
  BY <1>3
<1> QED
  BY <1>1, <1>2, <1>3

\* A read yields a line only before the bound, and of an EHBP body only the
\* chunk whose turn it is.
LEMMA ScanParts ==
  ASSUME Inv, NEW s \in Scans
  PROVE  /\ s[1].res \in {"line", "eof", "error"}
         /\ s[1].res = "line" => /\ s[1].line \in Lines /\ reads + 1 \in 0 .. Limit
                                 /\ s[2] = IF how.prot = "ehbp" THEN reads + 1 ELSE 0
<1>0. reads \in 0 .. Limit /\ Limit \in Nat
  BY RelayFacts, HowParts
<1>1. CASE s \in {<<EOF, 0>>, <<ReadError, 0>>}
  BY <1>1 DEF EOF, ReadError
<1>2. CASE reads # Limit /\ how.prot = "ehbp" /\ s \in {<<Open(f), f.n>> : f \in Frame}
  <2>1. PICK f \in Frame : s = <<Open(f), f.n>>
    BY <1>2
  <2>2. f.line \in Lines
    BY DEF Frame
  <2>3. CASE f.n = reads + 1 /\ Open(f) = Line(f.line)
    <3>1. s[1] = Line(f.line) /\ s[2] = reads + 1
      BY <2>1, <2>3
    <3> QED
      BY <1>0, <1>2, <2>2, <3>1 DEF Line
  <2>4. CASE Open(f) = ReadError
    BY <2>1, <2>4 DEF ReadError
  <2> QED
    BY <2>3, <2>4 DEF Open
<1>3. CASE reads # Limit /\ how.prot # "ehbp" /\ s \in {<<Line(l), 0>> : l \in Lines}
  <2>1. PICK l \in Lines : s = <<Line(l), 0>>
    BY <1>3
  <2> QED
    BY <1>0, <1>3, <2>1 DEF Line
<1> QED
  BY <1>1, <1>2, <1>3 DEF Scans

(***************************************************************************)
(* The relays                                                              *)
(***************************************************************************)

LEMMA RelayStreamInv ==
  ASSUME Inv, RelayStream
  PROVE  Inv'
<1>0. /\ pc = "relay" /\ how.stream /\ how.prot # "chutes"
      /\ UNCHANGED <<how, body, attempt, key, got, usable>>
  BY DEF RelayStream, Streams
<1>1. PICK s \in Scans :
       \/ /\ s[1].res = "line"
          /\ StreamLine(s[1].line, s[2]) /\ reads' = reads + 1
       \/ /\ s[1].res # "line" /\ client.hdr = 0
          /\ HTTPError("relay") /\ UNCHANGED <<reads, opened>>
       \/ /\ s[1].res # "line" /\ client.hdr > 0
          /\ Returns(IF s[1].res = "eof" THEN "nil" ELSE "relay")
          /\ UNCHANGED <<client, reads, opened>>
  BY DEF RelayStream
<1>2. ~ReadsWhole
  BY <1>0 DEF ReadsWhole
<1>3. CASE s[1].res # "line" /\ client.hdr = 0 /\ HTTPError("relay") /\ UNCHANGED <<reads, opened>>
  BY <1>0, <1>3, RelayFacts, ErrorInv
<1>4. CASE /\ s[1].res # "line" /\ client.hdr > 0
           /\ Returns(IF s[1].res = "eof" THEN "nil" ELSE "relay")
           /\ UNCHANGED <<client, reads, opened>>
  <2>1. pc' = "returned" /\ err' \in {"nil", "relay"} /\ client.hdr # 0
    BY <1>4 DEF Returns
  <2> QED
    BY <1>0, <1>4, <2>1, RelayFacts, RelayInv
<1>5. CASE s[1].res = "line" /\ StreamLine(s[1].line, s[2]) /\ reads' = reads + 1
  <2> DEFINE l == s[1].line
             n == s[2]
  <2>1. l \in Lines /\ reads' \in 0 .. Limit /\ n = (IF how.prot = "ehbp" THEN reads + 1 ELSE 0)
    BY <1>5, ScanParts
  <2>2. n \in 0 .. Limit
    BY <1>5, <2>1, RelayFacts, HowParts
  <2>3. StreamLine(l, n)
    BY <1>5
  <2> HIDE DEF l, n
  <2>4. ASSUME HeadersOnly, NEW e \in {"nil", "decrypt"}, Returns(e), UNCHANGED opened
        PROVE  Inv'
    <3>1. /\ client' \in [hdr : {0, 1}, parts : Seq(Part)] /\ client'.hdr = 1
          /\ client'.parts = client.parts /\ pc' = "returned" /\ err' = e
      BY <2>4, HeadersEffect DEF Returns
    <3>2. /\ Good(client'.parts) /\ Good(got')
          /\ how.prot = "ehbp" => Numbered(client'.parts) /\ Numbered(got')
      BY <1>0, <3>1, RelayFacts
    <3>3. key' \in {"none", "good", "wrong"} /\ opened' \in BOOLEAN
      BY <1>0, <2>4, RelayFacts
    <3> QED
      BY <1>0, <2>1, <3>1, <3>2, <3>3, RelayInv
  <2>5. ASSUME NEW x \in Part, GoodPart(x), Write(x), x.n = n, UNCHANGED <<pc, err>>, opened' \in BOOLEAN
        PROVE  Inv'
    <3>1. /\ client' \in [hdr : {0, 1}, parts : Seq(Part)] /\ client'.hdr = 1
          /\ client'.parts = Append(client.parts, x) /\ Good(client'.parts)
      BY <2>5, WriteEffect
    <3>2. how.prot = "ehbp" => Numbered(client'.parts) /\ reads' = Len(client'.parts)
      BY <1>0, <1>5, <2>1, <2>5, <3>1, RelayFacts, GoodAppend
    <3> QED
      BY <1>0, <2>1, <2>5, <3>1, <3>2, RelayFacts, RelayInv
  <2>6. CASE l.kind = "done" /\ Returns("nil") /\ HeadersOnly /\ UNCHANGED opened
    BY <2>4, <2>6
  <2>7. CASE Write(Blank(n, how.prot = "ehbp")) /\ opened' = (opened \/ how.prot = "ehbp") /\ UNCHANGED <<pc, err>>
    <3>1. (how.prot = "ehbp") \in BOOLEAN /\ (how.prot \in FullBody => how.prot = "ehbp")
      BY <1>0 DEF FullBody
    <3>2. /\ Blank(n, how.prot = "ehbp") \in Part /\ GoodPart(Blank(n, how.prot = "ehbp"))
          /\ Blank(n, how.prot = "ehbp").n = n
      BY <2>2, <3>1, RelayFacts, BlankPart
    <3>3. opened' \in BOOLEAN
      BY <2>7
    <3> QED
      BY <2>5, <2>7, <3>2, <3>3
  <2>8. CASE Fields /\ l.kind = "junk" /\ Returns("decrypt") /\ HeadersOnly /\ UNCHANGED opened
    BY <2>4, <2>8
  <2>9. CASE Fields /\ l.kind = "chunk" /\ DecryptedLine(l)
    <3> DEFINE d == DecryptChoice(how.prot, how.ep, l.first)
               x == Decrypted(d, l.second, NoItem)
    <3>1. \/ Returns("decrypt") /\ HeadersOnly /\ UNCHANGED opened
          \/ ~Fails(d.doc) /\ Write(x) /\ opened' = (opened \/ Opens(d.doc)) /\ UNCHANGED <<pc, err>>
      BY <2>9 DEF DecryptedLine
    <3>2. CASE ~Fails(d.doc) /\ Write(x) /\ opened' = (opened \/ Opens(d.doc)) /\ UNCHANGED <<pc, err>>
      <4>1. l.first \in {NoChoice} \cup Choices /\ l.second \in {NoChoice} \cup Choices
        BY <2>1, <2>9, LineParts
      <4>2. d \in GivenChoice /\ (d.has => Authentic(d.doc))
        BY <3>2, <4>1, ChoiceParts, ChoiceAuthentic
      <4>3. l.second \in GivenChoice
        BY <4>1, ChoiceParts
      <4>4. n = 0 /\ attempt \in 1 .. MaxAttempts /\ 0 \in 0 .. Limit
        BY <2>1, <2>2, <2>9, RelayFacts DEF Fields
      <4> HIDE DEF d
      <4>5. x \in Part /\ GoodPart(x) /\ x.n = 0
        BY <1>2, <2>9, <4>2, <4>3, <4>4, NothingGiven, DecryptedPart
      <4>6. opened' \in BOOLEAN
        BY <3>2, RelayFacts DEF Opens
      <4> HIDE DEF x
      <4> QED
        BY <2>5, <3>2, <4>4, <4>5, <4>6
    <3> QED
      BY <2>4, <3>1, <3>2
  <2>10. CASE Fields /\ l.kind = "verbatim" /\ Write(Verbatim(l.first)) /\ UNCHANGED <<pc, err, opened>>
    <3> DEFINE x == Verbatim(l.first)
    <3>1. l.first \in GivenChoice
      BY <2>1, <2>10, LineParts, ChoiceParts
    <3>2. n = 0 /\ attempt \in 1 .. MaxAttempts /\ 0 \in 0 .. Limit /\ opened' \in BOOLEAN
      BY <2>1, <2>2, <2>10, RelayFacts DEF Fields
    <3>3. x \in Part /\ GoodPart(x) /\ x.n = 0
      BY <1>0, <2>10, <3>1, <3>2, VerbatimPart DEF Streams
    <3> HIDE DEF x
    <3> QED
      BY <2>5, <2>10, <3>2, <3>3 DEF x
  <2> QED
    BY <2>3, <2>6, <2>7, <2>8, <2>9, <2>10 DEF StreamLine
<1> QED
  BY <1>1, <1>3, <1>4, <1>5

\* The end of a relay that has collected the whole answer.
LEMMA WholeAnswer ==
  ASSUME Inv, pc = "relay", UNCHANGED <<how, body, attempt, usable, got, key>>, Returns("nil"),
         client' = [hdr |-> 1, parts |-> got], reads' \in 0 .. Limit, opened' \in BOOLEAN
  PROVE  Inv'
<1>1. /\ client' \in [hdr : {0, 1}, parts : Seq(Part)] /\ client'.hdr = 1 /\ client'.parts = got
      /\ pc' = "returned" /\ err' = "nil"
  BY RelayFacts DEF Returns, Good
<1>2. /\ Good(client'.parts) /\ Good(got')
      /\ how.prot = "ehbp" => Numbered(client'.parts) /\ Numbered(got')
  BY <1>1, RelayFacts
<1>3. key' \in {"none", "good", "wrong"}
  BY RelayFacts
<1> QED
  BY <1>1, <1>2, <1>3, RelayInv

\* A step that collects a part, or reads a line that says nothing.
LEMMA Collects ==
  ASSUME Inv, pc = "relay", ~how.stream, UNCHANGED <<how, body, attempt, usable, key, pc, err, client>>,
         reads' = reads + 1, reads' \in 0 .. Limit, opened' \in BOOLEAN,
         \/ got' = got /\ how.prot # "ehbp"
         \/ \E x \in Part : /\ GoodPart(x) /\ got' = Append(got, x)
                            /\ how.prot = "ehbp" => x.n = reads + 1
  PROVE  Inv'
<1>1. /\ Good(got) /\ Good(client.parts) /\ key' \in {"none", "good", "wrong"}
      /\ how.prot = "ehbp" => Numbered(got) /\ Numbered(client.parts) /\ reads = Len(got)
      /\ client' \in [hdr : {0, 1}, parts : Seq(Part)] /\ client'.hdr = 0 /\ client'.parts = <<>>
  BY RelayFacts
<1>2. /\ Good(got') /\ (how.prot = "ehbp" => Numbered(got') /\ reads' = Len(got'))
  <2>1. CASE got' = got /\ how.prot # "ehbp"
    BY <1>1, <2>1
  <2>2. ASSUME NEW x \in Part, GoodPart(x), got' = Append(got, x), how.prot = "ehbp" => x.n = reads + 1
        PROVE  Good(got') /\ (how.prot = "ehbp" => Numbered(got') /\ reads' = Len(got'))
    BY <1>1, <2>2, GoodAppend
  <2> QED
    BY <2>1, <2>2
<1> QED
  BY <1>1, <1>2, RelayInv, GoodEmpty

LEMMA ReassembledInv ==
  ASSUME Inv, RelayReassembled
  PROVE  Inv'
<1>0. /\ pc = "relay" /\ ~how.stream /\ Fields /\ how.prot # "ehbp" /\ ~ReadsWhole
      /\ UNCHANGED <<how, body, attempt, key, usable>>
  BY DEF RelayReassembled, Reassembles, ReadsWhole, Fields
<1>1. /\ client.hdr = 0 /\ key' \in {"none", "good", "wrong"} /\ opened \in BOOLEAN
      /\ reads \in 0 .. Limit /\ attempt \in 1 .. MaxAttempts
  BY <1>0, RelayFacts
<1>2. PICK s \in Scans :
       \/ /\ s[1].res = "line"
          /\ ReassembleLine(s[1].line) /\ reads' = reads + 1
       \/ /\ s[1].res = "eof"
          /\ Reassembled /\ UNCHANGED <<reads, got, opened>>
       \/ /\ s[1].res = "error"
          /\ HTTPError("decrypt") /\ UNCHANGED <<reads, got, opened>>
  BY DEF RelayReassembled
<1>3. ASSUME Reassembled, UNCHANGED <<got, opened>>, reads' \in 0 .. Limit
      PROVE  Inv'
  <2>1. CASE HTTPError("decrypt")
    BY <1>0, <1>1, <1>3, <2>1, ErrorInv
  <2>2. CASE Returns("nil") /\ client' = [hdr |-> 1, parts |-> got]
    BY <1>0, <1>1, <1>3, <2>2, WholeAnswer
  <2> QED
    BY <1>3, <2>1, <2>2 DEF Reassembled
<1>4. CASE s[1].res = "eof" /\ Reassembled /\ UNCHANGED <<reads, got, opened>>
  BY <1>1, <1>3, <1>4
<1>5. CASE s[1].res = "error" /\ HTTPError("decrypt") /\ UNCHANGED <<reads, got, opened>>
  BY <1>0, <1>1, <1>5, ErrorInv
<1>6. CASE s[1].res = "line" /\ ReassembleLine(s[1].line) /\ reads' = reads + 1
  <2> DEFINE l == s[1].line
             d == IF l.first.has THEN ReassembleDelta(how.prot, how.ep, l.first.doc, l.indexed) ELSE Nothing
             c == [has |-> TRUE, doc |-> d]
             x == Decrypted(c, NoChoice, NoItem)
  <2>1. l \in Lines /\ reads' \in 0 .. Limit
    BY <1>6, ScanParts
  <2>2. \/ UNCHANGED <<pc, err, client, got, opened>>
        \/ Reassembled /\ UNCHANGED <<got, opened>>
        \/ HTTPError("decrypt") /\ UNCHANGED <<got, opened>>
        \/ /\ l.kind = "chunk" /\ ~Fails(d) /\ got' = Append(got, x)
           /\ opened' = (opened \/ Opens(d)) /\ UNCHANGED <<pc, err, client>>
    BY <1>6 DEF ReassembleLine
  <2>3. CASE UNCHANGED <<pc, err, client, got, opened>>
    BY <1>0, <1>1, <1>6, <2>1, <2>3, Collects
  <2>4. CASE Reassembled /\ UNCHANGED <<got, opened>>
    BY <1>3, <2>1, <2>4
  <2>5. CASE HTTPError("decrypt") /\ UNCHANGED <<got, opened>>
    BY <1>0, <1>1, <2>1, <2>5, ErrorInv
  <2>6. CASE /\ l.kind = "chunk" /\ ~Fails(d) /\ got' = Append(got, x)
             /\ opened' = (opened \/ Opens(d)) /\ UNCHANGED <<pc, err, client>>
    <3>1. l.first.has \in BOOLEAN /\ l.first.doc \in Message
      BY <1>0, <2>1, <2>6, LineParts, ChoiceParts
    <3>2. d \in [ChatPaths -> Leaf \cup {"opened"}] /\ Authentic(d)
      <4>1. CASE l.first.has
        BY <2>6, <3>1, <4>1, DeltaAuthentic
      <4>2. CASE ~l.first.has
        <5>1. Nothing \in [ChatPaths -> Leaf \cup {"opened"}]
          BY DEF Nothing, Leaf
        <5> QED
          BY <4>2, <5>1, NothingGiven
      <4> QED
        BY <4>1, <4>2
    <3> HIDE DEF d
    <3>3. c \in GivenChoice /\ (c.has => Authentic(c.doc))
      BY <3>2 DEF GivenChoice
    <3>4. 0 \in 0 .. Limit
      BY HowParts, RelayFacts
    <3> HIDE DEF c
    <3>5. x \in Part /\ GoodPart(x)
      BY <1>0, <1>1, <3>3, <3>4, NothingGiven, DecryptedPart
    <3>6. opened' \in BOOLEAN
      BY <2>6
    <3> HIDE DEF x
    <3> QED
      BY <1>0, <1>6, <2>1, <2>6, <3>5, <3>6, Collects
  <2> QED
    BY <2>2, <2>3, <2>4, <2>5, <2>6
<1> QED
  BY <1>2, <1>4, <1>5, <1>6

LEMMA RelayPlainInv ==
  ASSUME Inv, RelayPlain
  PROVE  Inv'
<1>0. /\ pc = "relay" /\ ~how.stream /\ ~Fields /\ how.prot # "chutes"
      /\ UNCHANGED <<how, body, attempt, key, usable>>
  BY DEF RelayPlain, ReadsWhole
<1>1. /\ client.hdr = 0 /\ key' \in {"none", "good", "wrong"} /\ opened \in BOOLEAN
      /\ reads \in 0 .. Limit /\ attempt \in 1 .. MaxAttempts /\ Limit \in Nat
  BY <1>0, RelayFacts, HowParts
<1>2. PICK s \in Scans :
       \/ /\ s[1].res = "line"
          /\ got' = Append(got, Blank(s[2], how.prot = "ehbp")) /\ reads' = reads + 1
          /\ opened' = (opened \/ how.prot = "ehbp")
          /\ UNCHANGED <<pc, err, client>>
       \/ /\ s[1].res = "eof"
          /\ Returns("nil") /\ client' = [hdr |-> 1, parts |-> got]
          /\ UNCHANGED <<reads, got, opened>>
       \/ /\ s[1].res = "error"
          /\ HTTPError("relay") /\ UNCHANGED <<reads, got, opened>>
  BY DEF RelayPlain
<1>3. CASE /\ s[1].res = "line"
           /\ got' = Append(got, Blank(s[2], how.prot = "ehbp")) /\ reads' = reads + 1
           /\ opened' = (opened \/ how.prot = "ehbp")
           /\ UNCHANGED <<pc, err, client>>
  <2> DEFINE n == s[2]
             x == Blank(n, how.prot = "ehbp")
  <2>1. reads' \in 0 .. Limit /\ n \in 0 .. Limit /\ (how.prot = "ehbp" => n = reads + 1)
    BY <1>1, <1>3, ScanParts
  <2>2. (how.prot = "ehbp") \in BOOLEAN /\ (how.prot \in FullBody => how.prot = "ehbp")
    BY <1>0 DEF FullBody
  <2>3. x \in Part /\ GoodPart(x) /\ x.n = n
    BY <1>1, <2>1, <2>2, BlankPart
  <2>4. opened' \in BOOLEAN
    BY <1>3
  <2>5. got' = Append(got, x)
    BY <1>3
  <2> HIDE DEF x, n
  <2> QED
    BY <1>0, <1>3, <2>1, <2>3, <2>4, <2>5, Collects
<1>4. CASE /\ s[1].res = "eof"
           /\ Returns("nil") /\ client' = [hdr |-> 1, parts |-> got]
           /\ UNCHANGED <<reads, got, opened>>
  BY <1>0, <1>1, <1>4, WholeAnswer
<1>5. CASE s[1].res = "error" /\ HTTPError("relay") /\ UNCHANGED <<reads, got, opened>>
  BY <1>0, <1>1, <1>5, ErrorInv
<1> QED
  BY <1>2, <1>3, <1>4, <1>5

\* A relay that gives the whole answer in one part.
LEMMA OnePart ==
  ASSUME Inv, pc = "relay", how.prot # "ehbp", UNCHANGED <<how, body, attempt, reads, key, got, usable>>,
         NEW x \in Part, GoodPart(x), Write(x), Returns("nil"), opened' \in BOOLEAN
  PROVE  Inv'
<1>1. /\ client' \in [hdr : {0, 1}, parts : Seq(Part)] /\ client'.hdr = 1 /\ Good(client'.parts)
      /\ pc' = "returned" /\ err' = "nil"
  BY WriteEffect DEF Returns
<1>2. Good(got') /\ key' \in {"none", "good", "wrong"} /\ reads' \in 0 .. Limit
  BY RelayFacts
<1> QED
  BY <1>1, <1>2, RelayInv

LEMMA RelayWholeInv ==
  ASSUME Inv, RelayWhole
  PROVE  Inv'
<1>0. /\ pc = "relay" /\ ReadsWhole /\ Fields /\ how.prot # "ehbp" /\ ~how.stream
      /\ UNCHANGED <<how, body, attempt, reads, key, got, usable>>
  BY DEF RelayWhole, ReadsWhole, Fields
<1>1. /\ client.hdr = 0 /\ key' \in {"none", "good", "wrong"} /\ opened \in BOOLEAN
      /\ reads' \in 0 .. Limit /\ attempt \in 1 .. MaxAttempts /\ Limit \in Nat /\ how.ep \in Endpoints
  BY <1>0, RelayFacts, HowParts
<1>2. CASE \E e \in {"relay", "decrypt"} : HTTPError(e) /\ UNCHANGED opened
  BY <1>0, <1>1, <1>2, ErrorInv
<1>3. ASSUME NEW c1 \in Choices, NEW c2 \in Choices, NEW i \in Data(Items),
             ~Fails(DecryptChoice(how.prot, how.ep, c1).doc),
             ~Fails(DecryptChoice(how.prot, how.ep, c2).doc),
             ~Fails(DecryptNonStreamResponse(how.prot, how.ep, i)),
             Returns("nil"),
             Write(Decrypted(DecryptChoice(how.prot, how.ep, c1),
                             DecryptChoice(how.prot, how.ep, c2),
                             DecryptNonStreamResponse(how.prot, how.ep, i))),
             opened' \in BOOLEAN
      PROVE  Inv'
  <2> DEFINE d1 == DecryptChoice(how.prot, how.ep, c1)
             d2 == DecryptChoice(how.prot, how.ep, c2)
             d == DecryptNonStreamResponse(how.prot, how.ep, i)
             x == Decrypted(d1, d2, d)
  <2>1. /\ c1.has \in BOOLEAN /\ c1.doc \in Message
        /\ c2.has \in BOOLEAN /\ c2.doc \in Message
    BY ChoiceParts
  <2>2. d1 \in GivenChoice /\ (d1.has => Authentic(d1.doc))
    BY <1>3, <2>1, ChoiceAuthentic
  <2>3. d2 \in GivenChoice /\ (d2.has => Authentic(d2.doc))
    BY <1>3, <2>1, ChoiceAuthentic
  <2>4. d \in [ItemPaths -> Leaf \cup {"opened"}] /\ Authentic(ItemOf(d))
    <3>1. /\ i.has \in BOOLEAN /\ i.doc \in [ItemPaths -> Leaf]
          /\ ~i.has => \A p \in ItemPaths \ {"score"} : i.doc[p] = "absent"
      BY DataParts
    <3> QED
      BY <1>1, <1>3, <3>1, ItemAuthentic
  <2>5. Write(x) /\ 0 \in 0 .. Limit
    BY <1>1, <1>3
  <2> HIDE DEF d1, d2, d
  <2>6. x \in Part /\ GoodPart(x)
    BY <1>0, <1>1, <2>2, <2>3, <2>4, <2>5, DecryptedPart
  <2> HIDE DEF x
  <2> QED
    BY <1>0, <1>3, <2>5, <2>6, OnePart
<1>4. \/ \E e \in {"relay", "decrypt"} : HTTPError(e) /\ UNCHANGED opened
      \/ \E c1, c2 \in Choices, i \in Data(Items) :
           /\ ~Fails(DecryptChoice(how.prot, how.ep, c1).doc)
           /\ ~Fails(DecryptChoice(how.prot, how.ep, c2).doc)
           /\ ~Fails(DecryptNonStreamResponse(how.prot, how.ep, i))
           /\ Returns("nil")
           /\ Write(Decrypted(DecryptChoice(how.prot, how.ep, c1),
                              DecryptChoice(how.prot, how.ep, c2),
                              DecryptNonStreamResponse(how.prot, how.ep, i)))
           /\ opened' \in BOOLEAN
  BY DEF RelayWhole
<1> QED
  BY <1>2, <1>3, <1>4

LEMMA StreamChutesInv ==
  ASSUME Inv, RelayStreamChutes
  PROVE  Inv'
<1>0. /\ pc = "relay" /\ how.stream /\ how.prot = "chutes"
      /\ UNCHANGED <<how, body, attempt, got, usable>>
  BY DEF RelayStreamChutes
<1>1. /\ Good(got') /\ Good(client.parts) /\ client \in [hdr : {0, 1}, parts : Seq(Part)]
      /\ (client.hdr = 0 => client.parts = <<>>) /\ key \in {"none", "good", "wrong"}
      /\ opened \in BOOLEAN /\ reads \in 0 .. Limit /\ attempt \in 1 .. MaxAttempts
  BY <1>0, RelayFacts
<1>2. PICK s \in Scans :
       \/ /\ s[1].res = "line"
          /\ ChutesLine(s[1].line) /\ reads' = reads + 1
       \/ /\ s[1].res # "line"
          /\ Returns(IF s[1].res = "eof" THEN "nil" ELSE "relay")
          /\ UNCHANGED <<client, key, reads, opened>>
  BY DEF RelayStreamChutes
<1>3. ASSUME client' = client, key' \in {"none", "good", "wrong"}, opened' = opened, reads' \in 0 .. Limit,
             (pc' = "relay" /\ err' = err) \/ (pc' = "returned" /\ err' \in {"nil", "relay", "decrypt"})
      PROVE  Inv'
  BY <1>0, <1>1, <1>3, RelayInv
<1>4. CASE /\ s[1].res # "line"
           /\ Returns(IF s[1].res = "eof" THEN "nil" ELSE "relay")
           /\ UNCHANGED <<client, key, reads, opened>>
  BY <1>1, <1>3, <1>4 DEF Returns
<1>5. CASE s[1].res = "line" /\ ChutesLine(s[1].line) /\ reads' = reads + 1
  <2> DEFINE l == s[1].line
  <2>1. l \in Lines /\ reads' \in 0 .. Limit
    BY <1>5, ScanParts
  <2> HIDE DEF l
  <2>2. \/ UNCHANGED <<pc, err, client, key, opened>>
        \/ \E e \in {"nil", "decrypt"} : Returns(e) /\ UNCHANGED <<client, key, opened>>
        \/ key' = Decapsulated(l.seal) /\ UNCHANGED <<pc, err, client, opened>>
        \/ /\ l.kind = "e2e" /\ OpensChunk(l) /\ opened' = TRUE /\ UNCHANGED <<pc, err, key>>
           /\ Write(Blank(l.n, l.seal = "sealed" /\ key = "good"))
    BY <1>5 DEF ChutesLine, l
  <2>3. CASE UNCHANGED <<pc, err, client, key, opened>>
    BY <1>0, <1>1, <1>3, <2>1, <2>3
  <2>4. CASE \E e \in {"nil", "decrypt"} : Returns(e) /\ UNCHANGED <<client, key, opened>>
    BY <1>1, <1>3, <2>1, <2>4 DEF Returns
  <2>5. CASE key' = Decapsulated(l.seal) /\ UNCHANGED <<pc, err, client, opened>>
    BY <1>0, <1>3, <2>1, <2>5 DEF Decapsulated
  <2>6. CASE /\ l.kind = "e2e" /\ OpensChunk(l) /\ opened' = TRUE /\ UNCHANGED <<pc, err, key>>
             /\ Write(Blank(l.n, l.seal = "sealed" /\ key = "good"))
    <3>1. l.n \in 0 .. Limit /\ (l.seal = "sealed" /\ key = "good")
      BY <1>0, <2>1, <2>6, LineParts, RelayFacts, HowParts DEF OpensChunk
    <3>2. (l.seal = "sealed" /\ key = "good") = TRUE
      BY <3>1
    <3> DEFINE x == Blank(l.n, TRUE)
    <3>3. Write(x)
      BY <2>6, <3>2
    <3>4. x \in Part /\ GoodPart(x)
      BY <1>1, <3>1, BlankPart
    <3> HIDE DEF x
    <3>5. /\ client' \in [hdr : {0, 1}, parts : Seq(Part)] /\ client'.hdr = 1 /\ Good(client'.parts)
      BY <3>3, <3>4, WriteEffect
    <3> QED
      BY <1>0, <1>1, <2>1, <2>6, <3>5, RelayInv
  <2> QED
    BY <2>2, <2>3, <2>4, <2>5, <2>6
<1> QED
  BY <1>2, <1>4, <1>5

LEMMA NonStreamChutesInv ==
  ASSUME Inv, RelayNonStreamChutes
  PROVE  Inv'
<1>0. /\ pc = "relay" /\ ~how.stream /\ how.prot = "chutes"
      /\ UNCHANGED <<how, body, attempt, reads, key, got, usable>>
  BY DEF RelayNonStreamChutes
<1>1. /\ client.hdr = 0 /\ key' \in {"none", "good", "wrong"} /\ opened \in BOOLEAN
      /\ Good(got') /\ Good(client.parts) /\ client \in [hdr : {0, 1}, parts : Seq(Part)]
      /\ client.parts = <<>>
      /\ reads' \in 0 .. Limit /\ attempt \in 1 .. MaxAttempts /\ 0 \in 0 .. Limit
  BY <1>0, RelayFacts, HowParts
<1>2. CASE HTTPError("relay") /\ UNCHANGED opened
  BY <1>0, <1>1, <1>2, ErrorInv
<1>3. CASE Returns("decrypt") /\ UNCHANGED <<client, opened>>
  BY <1>0, <1>1, <1>3, RelayInv DEF Returns
<1>4. CASE Returns("nil") /\ Write(Blank(0, TRUE)) /\ opened' = TRUE
  <2>1. Blank(0, TRUE) \in Part /\ GoodPart(Blank(0, TRUE))
    BY <1>1, BlankPart
  <2> QED
    BY <1>0, <1>4, <2>1, OnePart
<1> QED
  BY <1>2, <1>3, <1>4 DEF RelayNonStreamChutes

(***************************************************************************)
(* The request, and what surrounds the relay                               *)
(***************************************************************************)

\* A path that is sealed without an error is sealed, or was not there.
LEMMA SealLeafEffect ==
  ASSUME NEW path, NEW v \in Leaf, SealLeaf(path, v) # "error"
  PROVE  SealLeaf(path, v) \in Missing \cup {"sealed"}
BY DEF SealLeaf, Leaf, Missing

LEMMA VenicePaths == SealedPaths("venice", "chat") = {"content", "content[]"}
BY DEF SealedPaths

\* A request that EncryptRequest accepts has no user text in the clear.
LEMMA SealedRequest ==
  ASSUME how \in Hows, how.prot # "plain", NEW b \in Bodies[how.ep],
         Fields => Supports(how.prot, how.ep) /\ ~Fails(Sealed(b))
  PROVE  /\ DOMAIN Sealed(b) = DOMAIN b
         /\ \A p \in DOMAIN b : Sealed(b)[p] \in Leaf
         /\ \A p \in DOMAIN b :
              (how.prot = "venice" => p \in {"content", "content[]"}) /\ p \notin {"model", "role"}
                => Sealed(b)[p] \in Missing \cup {"sealed"}
<1>1. /\ how.prot \in Protocols /\ how.ep \in Endpoints
      /\ \A p \in DOMAIN b : b[p] \in Leaf
      /\ how.ep # "audio" => DOMAIN b \subseteq SealedPaths("near", how.ep) \cup {"model", "role"}
  BY HowParts, BodiesAssumption
<1>2. CASE how.prot \in FullBody
  <2>1. Sealed(b) = [p \in DOMAIN b |-> "sealed"]
    BY <1>2 DEF Sealed, FullBody
  <2> QED
    BY <2>1 DEF Leaf
<1>3. CASE how.prot \notin FullBody
  <2>1. Fields /\ how.prot \in {"near", "venice"}
    BY <1>1, <1>3 DEF Fields, Protocols, FullBody
  <2>2. Sealed(b) = EncryptRequest(how.prot, how.ep, b)
    BY <1>3, <2>1 DEF Sealed
  <2>3. DOMAIN Sealed(b) = DOMAIN b
    BY <2>2 DEF EncryptRequest
  <2>4. \A p \in DOMAIN b : Sealed(b)[p] # "error"
    BY <2>1, <2>3 DEF Fails
  <2>5. \A p \in DOMAIN b : /\ p \in SealedPaths(how.prot, how.ep) => Sealed(b)[p] = SealLeaf(p, b[p])
                            /\ p \notin SealedPaths(how.prot, how.ep) => Sealed(b)[p] = b[p]
    BY <2>2 DEF EncryptRequest
  <2>6. \A p \in DOMAIN b : p \in SealedPaths(how.prot, how.ep) => Sealed(b)[p] \in Missing \cup {"sealed"}
    BY <1>1, <2>4, <2>5, SealLeafEffect
  <2>7. \A p \in DOMAIN b : Sealed(b)[p] \in Leaf
    BY <1>1, <2>5, <2>6 DEF Leaf, Missing
  <2>8. ASSUME NEW p \in DOMAIN b, p \notin {"model", "role"},
               how.prot = "venice" => p \in {"content", "content[]"}
        PROVE  p \in SealedPaths(how.prot, how.ep)
    <3>1. CASE how.prot = "venice"
      <4>1. how.ep = "chat"
        BY <2>1, <3>1 DEF Supports
      <4> QED
        BY <2>8, <3>1, <4>1, VenicePaths
    <3>2. CASE how.prot = "near"
      <4>1. how.ep # "audio"
        BY <2>1, <3>2 DEF Supports
      <4> QED
        BY <1>1, <2>8, <3>2, <4>1
    <3> QED
      BY <2>1, <3>1, <3>2
  <2> QED
    BY <2>3, <2>6, <2>7, <2>8
<1> QED
  BY <1>2, <1>3

\* The parts of the invariant that a step leaves alone when it only moves on.
LEMMA SameParts ==
  ASSUME Inv, UNCHANGED <<how, attempt, got, client>>
  PROVE  PartsInv' /\ Part' = Part /\ Limit' = Limit
<1>1. PartsInv
  BY DEF Inv
<1> QED
  BY <1>1 DEF PartsInv, GoodPart, PartAuthentic, Authentic, ItemOf, Fields, Streams, ReadsWhole, Reassembles,
             Part, GivenChoice, Limit

\* The client is answered, or not, without a part.
LEMMA HeaderInv ==
  ASSUME Inv, pc \in {"encrypt", "unwrap", "returned"},
         UNCHANGED <<how, body, attempt, reads, key, got, opened>>, usable' \in BOOLEAN,
         pc' \in {"returned", "done"}, err' \in {"none", "nil", "encrypt", "relay", "decrypt"},
         client' \in [hdr : {0, 1}, parts : Seq(Part)], client'.parts = client.parts,
         client'.hdr = 0 => client.hdr = 0,
         err' = "nil" => err = "nil" /\ pc = "returned",
         pc' = "done" => client'.hdr = 1 \/ err' = "nil"
  PROVE  Inv'
<1>1. TypeOK /\ PartsInv /\ NumberInv /\ AnswerInv /\ SentSealed
  BY DEF Inv
<1>2. Part' = Part /\ Limit' = Limit
  BY DEF Part, Limit
<1>3. TypeOK'
  <2>1. client'.hdr \in 0 .. 2 /\ client'.parts \in Seq(Part')
    BY <1>2
  <2> QED
    BY <1>1, <1>2, <2>1 DEF TypeOK
<1>4. PartsInv'
  BY <1>1 DEF PartsInv, GoodPart, PartAuthentic, Authentic, ItemOf, Fields, Streams, ReadsWhole, Reassembles
<1>5. NumberInv'
  BY <1>1 DEF NumberInv
<1>6. AnswerInv'
  BY <1>1, <1>2 DEF AnswerInv
<1>7. SentSealed'
  BY <1>1 DEF SentSealed, UserText
<1> QED
  BY <1>3, <1>4, <1>5, <1>6, <1>7 DEF Inv

LEMMA InitInv ==
  ASSUME Init
  PROVE  Inv
<1>1. how \in Hows /\ Limit \in Nat
  BY HowParts DEF Init
<1>2. <<>> \in Seq(Part) /\ DOMAIN <<>> = {} /\ Len(<<>>) = 0
  BY EmptySeq
<1>3. client = [hdr |-> 0, parts |-> <<>>] /\ client.hdr = 0 /\ client.parts = <<>>
  BY DEF Init, NoAnswer
<1>4. 1 \in 1 .. MaxAttempts
  BY RelayBounds
<1>5. TypeOK
  <2>1. reads \in 0 .. Limit /\ attempt \in 1 .. MaxAttempts /\ body = None
    BY <1>1, <1>4 DEF Init
  <2>2. client.hdr \in 0 .. 2 /\ client.parts \in Seq(Part) /\ got \in Seq(Part)
    BY <1>2, <1>3 DEF Init
  <2>3. {usable, opened} \subseteq BOOLEAN
    BY DEF Init
  <2> QED
    BY <1>1, <2>1, <2>2, <2>3 DEF Init, TypeOK
<1>6. PartsInv /\ NumberInv
  BY <1>2, <1>3 DEF Init, PartsInv, NumberInv
<1>7. AnswerInv
  BY <1>2, <1>3 DEF Init, AnswerInv
<1>8. SentSealed
  BY DEF Init, SentSealed
<1> QED
  BY <1>5, <1>6, <1>7, <1>8 DEF Inv

LEMMA EncryptInv ==
  ASSUME Inv, Encrypt
  PROVE  Inv'
<1>1. TypeOK /\ PartsInv /\ NumberInv /\ AnswerInv
  BY DEF Inv
<1>2. pc = "encrypt" /\ UNCHANGED <<how, attempt, reads, key, got, usable, opened>>
  BY DEF Encrypt
<1>3. client \in [hdr : {0, 1}, parts : Seq(Part)] /\ client.hdr = 0
  BY <1>1, <1>2 DEF AnswerInv
<1>4. CASE /\ pc' = "done" /\ err' = "encrypt" /\ client' = [client EXCEPT !.hdr = 1]
           /\ UNCHANGED body
  <2>1. client' \in [hdr : {0, 1}, parts : Seq(Part)] /\ client'.parts = client.parts /\ client'.hdr = 1
    BY <1>3, <1>4
  <2>2. usable' \in BOOLEAN
    BY <1>1, <1>2 DEF TypeOK
  <2> QED
    BY <1>2, <1>4, <2>1, <2>2, HeaderInv
<1>5. ASSUME NEW b \in Bodies[how.ep], body' = Sealed(b), pc' = "send", UNCHANGED <<err, client>>,
             ~Fields \/ (Supports(how.prot, how.ep) /\ ~Fails(Sealed(b)))
      PROVE  Inv'
  <2>1. PartsInv' /\ Part' = Part /\ Limit' = Limit
    BY <1>2, <1>5, SameParts
  <2>2. how \in Hows
    BY <1>1 DEF TypeOK
  <2>3. CASE how.prot = "plain"
    <3>1. body' = b
      BY <1>5, <2>3 DEF Sealed, FullBody
    <3>2. \A p \in DOMAIN b : b[p] \in Leaf
      BY <2>2, HowParts, BodiesAssumption
    <3>3. (\A p \in DOMAIN body' : body'[p] \in Leaf) /\ SentSealed'
      BY <1>2, <2>3, <3>1, <3>2 DEF SentSealed
    <3> QED
      BY <1>1, <1>2, <1>5, <2>1, <3>3 DEF Inv, TypeOK, NumberInv, AnswerInv
  <2>4. CASE how.prot # "plain"
    <3>1. /\ DOMAIN body' = DOMAIN b
          /\ \A p \in DOMAIN b : body'[p] \in Leaf
          /\ \A p \in DOMAIN b :
               (how.prot = "venice" => p \in {"content", "content[]"}) /\ p \notin {"model", "role"}
                 => body'[p] \in Missing \cup {"sealed"}
      BY <1>5, <2>2, <2>4, SealedRequest
    <3>2. SentSealed'
      BY <1>2, <3>1 DEF SentSealed, UserText
    <3> QED
      BY <1>1, <1>2, <1>5, <2>1, <3>1, <3>2 DEF Inv, TypeOK, NumberInv, AnswerInv
  <2> QED
    BY <2>3, <2>4
<1> QED
  BY <1>4, <1>5 DEF Encrypt

LEMMA SendInv ==
  ASSUME Inv, Send
  PROVE  Inv'
<1>1. TypeOK /\ PartsInv /\ NumberInv /\ AnswerInv
  BY DEF Inv
<1>2. /\ pc = "send" /\ body' = None /\ pc' \in {"unwrap", "relay"} /\ (pc' = "relay" => how.prot # "ehbp")
      /\ UNCHANGED <<how, attempt, reads, key, got, client, err, usable, opened>>
  BY DEF Send
<1>3. PartsInv' /\ Part' = Part /\ Limit' = Limit
  BY <1>2, SameParts
<1>4. TypeOK' /\ SentSealed'
  BY <1>1, <1>2, <1>3 DEF TypeOK, SentSealed
<1>5. NumberInv'
  BY <1>1, <1>2 DEF NumberInv
<1>6. AnswerInv'
  BY <1>1, <1>2, <1>3 DEF AnswerInv
<1> QED
  BY <1>3, <1>4, <1>5, <1>6 DEF Inv

LEMMA UnwrapInv ==
  ASSUME Inv, Unwrap
  PROVE  Inv'
<1>1. TypeOK /\ PartsInv /\ NumberInv /\ AnswerInv /\ SentSealed
  BY DEF Inv
<1>2. pc = "unwrap" /\ UNCHANGED <<how, body, attempt, reads, key, got, usable, opened>>
  BY DEF Unwrap
<1>3. /\ client.hdr = 0 /\ client.parts = <<>> /\ got = <<>> /\ reads = 0
      /\ client \in [hdr : {0, 1}, parts : Seq(Part)] /\ usable \in BOOLEAN
  BY <1>1, <1>2 DEF AnswerInv, TypeOK
<1>4. CASE pc' = "relay" /\ UNCHANGED <<client, err>>
  <2>1. PartsInv' /\ Part' = Part /\ Limit' = Limit
    BY <1>2, <1>4, SameParts
  <2>2. TypeOK' /\ SentSealed'
    BY <1>1, <1>2, <1>4, <2>1 DEF TypeOK, SentSealed, UserText
  <2>3. NumberInv'
    BY <1>1, <1>2, <1>3, <1>4, EmptySeq DEF NumberInv
  <2>4. AnswerInv'
    BY <1>1, <1>2, <1>3, <1>4, <2>1 DEF AnswerInv
  <2> QED
    BY <2>1, <2>2, <2>3, <2>4 DEF Inv
<1>5. CASE HTTPError("decrypt")
  <2>1. /\ client' \in [hdr : {0, 1}, parts : Seq(Part)] /\ client'.parts = client.parts /\ client'.hdr = 1
        /\ pc' = "returned" /\ err' = "decrypt"
    BY <1>3, <1>5 DEF HTTPError, Returns
  <2> QED
    BY <1>2, <1>3, <2>1, HeaderInv
<1> QED
  BY <1>4, <1>5 DEF Unwrap

\* The next attempt starts with nothing of the last one: the client has no
\* part, and what was collected is dropped.
LEMMA RetryInv ==
  ASSUME Inv, Retry
  PROVE  Inv'
<1>1. TypeOK /\ AnswerInv /\ SentSealed
  BY DEF Inv
<1>2. /\ pc = "returned" /\ attempt' = attempt + 1 /\ pc' = "encrypt" /\ reads' = 0 /\ key' = "none"
      /\ got' = <<>> /\ err' = "none" /\ opened' = FALSE /\ UNCHANGED <<how, body, client, usable>>
      /\ attempt < MaxAttempts /\ client.hdr = 0
  BY DEF Retry, MayRetry
<1>3. client.parts = <<>> /\ client \in [hdr : {0, 1}, parts : Seq(Part)]
  BY <1>1, <1>2 DEF AnswerInv
<1>4. Part' = Part /\ Limit' = Limit /\ Limit \in Nat
  BY <1>1, <1>2, HowParts DEF Part, Limit, TypeOK
<1>5. attempt' \in 1 .. MaxAttempts
  BY <1>1, <1>2, RelayBounds DEF TypeOK
<1>6. <<>> \in Seq(Part) /\ DOMAIN <<>> = {}
  BY EmptySeq
<1>7. TypeOK'
  <2>1. client'.hdr \in 0 .. 2 /\ client'.parts \in Seq(Part') /\ got' \in Seq(Part') /\ reads' \in 0 .. Limit'
    BY <1>2, <1>3, <1>4, <1>6
  <2>2. {usable', opened'} \subseteq BOOLEAN
    BY <1>1, <1>2 DEF TypeOK
  <2> QED
    BY <1>1, <1>2, <1>5, <2>1, <2>2 DEF TypeOK
<1>8. PartsInv' /\ NumberInv'
  BY <1>2, <1>3, <1>6 DEF PartsInv, NumberInv
<1>9. AnswerInv'
  BY <1>2, <1>3, <1>4 DEF AnswerInv
<1>10. SentSealed'
  BY <1>1, <1>2 DEF SentSealed, UserText
<1> QED
  BY <1>7, <1>8, <1>9, <1>10 DEF Inv

LEMMA ConcludeInv ==
  ASSUME Inv, Conclude
  PROVE  Inv'
<1>1. TypeOK /\ AnswerInv
  BY DEF Inv
<1>2. /\ pc = "returned" /\ pc' = "done" /\ usable' \in BOOLEAN
      /\ UNCHANGED <<how, body, attempt, reads, key, got, err, opened>>
  BY DEF Conclude
<1>3. client \in [hdr : {0, 1}, parts : Seq(Part)]
  BY <1>1 DEF AnswerInv
<1>4. /\ client' \in [hdr : {0, 1}, parts : Seq(Part)] /\ client'.parts = client.parts
      /\ client'.hdr = 0 => client.hdr = 0 /\ err = "nil"
  BY <1>3 DEF Conclude
<1>5. err' \in {"none", "nil", "encrypt", "relay", "decrypt"}
  BY <1>1, <1>2 DEF TypeOK
<1> QED
  BY <1>2, <1>4, <1>5, HeaderInv

LEMMA StutterInv ==
  ASSUME Inv, UNCHANGED vars
  PROVE  Inv'
<1>1. UNCHANGED <<how, pc, body, attempt, reads, key, got, client, err, usable, opened>>
  BY DEF vars
<1>2. PartsInv' /\ Part' = Part /\ Limit' = Limit
  BY <1>1, SameParts
<1>3. TypeOK /\ NumberInv /\ AnswerInv /\ SentSealed
  BY DEF Inv
<1>4. TypeOK' /\ NumberInv'
  BY <1>1, <1>2, <1>3 DEF TypeOK, NumberInv
<1>5. AnswerInv' /\ SentSealed'
  BY <1>1, <1>2, <1>3 DEF AnswerInv, SentSealed, UserText
<1> QED
  BY <1>2, <1>4, <1>5 DEF Inv

(***************************************************************************)
(* Theorems                                                                *)
(***************************************************************************)

\* The inductive invariant of the exchange holds: every part that was given to
\* the client or collected for it is authentic and of the current attempt, the
\* chunks of an EHBP body are in their places, and the headers tell what the
\* client has seen.
THEOREM Invariance == Spec => []Inv
<1>1. Init => Inv
  BY InitInv
<1>2. Inv /\ [Next]_vars => Inv'
  BY EncryptInv, SendInv, UnwrapInv, RelayStreamInv, ReassembledInv, RelayPlainInv, RelayWholeInv,
     StreamChutesInv, NonStreamChutesInv, RetryInv, ConcludeInv, StutterInv DEF Next
<1> QED
  BY <1>1, <1>2, PTL DEF Spec

\* The exchange has its types for every set of requests and answers; no relay
\* reads past its bound.
THEOREM TypeCorrect == Spec => []TypeOK
<1>1. Inv => TypeOK
  BY DEF Inv
<1> QED
  BY <1>1, Invariance, PTL

\* Whatever the upstream sends, in whatever order, what the relays decrypt for
\* the client was sealed for this request: each field the policy wants sealed
\* in the first delta of a chunk (relaySSELine), in what is reassembled and in
\* the messages and data of a whole answer; each chunk of a Chutes stream; and
\* the chunks of an EHBP body in order without a gap.  What they copy without a
\* look, lines without "data: ", second choices of a stream and choices without
\* a delta or message, is no part of it.
THEOREM Delivered == Spec => []DeliveredIsAuthentic
<1>1. Inv => DeliveredIsAuthentic
  BY DEF Inv, PartsInv, NumberInv, GoodPart, DeliveredIsAuthentic
<1> QED
  BY <1>1, Invariance, PTL

\* relayWithRetry gives the client one answer: the parts of one attempt, one
\* header, and one at the end unless a Chutes stream ended without a chunk.
THEOREM OneAnswerGiven == Spec => []OneAnswer
<1>1. ASSUME Inv PROVE OneAnswer
  <2>1. client.hdr \in {0, 1} /\ client.hdr <= 1
    BY <1>1 DEF Inv, AnswerInv
  <2>2. \A i \in DOMAIN client.parts : client.parts[i].att = attempt
    BY <1>1 DEF Inv, PartsInv, GoodPart
  <2>3. pc = "done" => \/ client.hdr = 1
                       \/ how.prot = "chutes" /\ how.stream /\ err = "nil" /\ client.parts = <<>>
    BY <1>1, <2>1 DEF Inv, AnswerInv
  <2> QED
    BY <2>1, <2>2, <2>3 DEF OneAnswer
<1> QED
  BY <1>1, Invariance, PTL

\* EncryptRequest of every provider: no body with user text in the clear is
\* kept for sending, whatever the types of the values in the client's JSON.
THEOREM Sealing == Spec => []SentSealed
<1>1. Inv => SentSealed
  BY DEF Inv
<1> QED
  BY <1>1, Invariance, PTL

=============================================================================
