------------------------- MODULE VerificationProofs -------------------------
(***************************************************************************)
(* Proofs of the safety properties of Verification, for every set of       *)
(* configurations and any number of deviations.                            *)
(***************************************************************************)
EXTENDS Verification, FiniteSetTheorems, TLAPS

(***************************************************************************)
(* Documents                                                               *)
(***************************************************************************)

Fields1 == {"parses", "genuine", "debug", "minimumTCB", "tdFields", "dataKey", "dataNonce",
            "dataTail", "gpusVerify", "nvswitchHash", "registryID", "schema"}
Fields2 == {"MRTD", "MRSEAM", "RTMR0", "RTMR1", "RTMR2", "RTMR3"}
Fields3 == {"quote", "guestPolicy", "nonce", "key", "address", "fingerprint"}
Fields4 == {"format", "gpus", "gpuNonce", "gpuHash", "topology", "compose", "events"}
FieldNames == Fields1 \cup Fields2 \cup Fields3 \cup Fields4

LEMMA Names == DOMAIN EvidenceValues = FieldNames
BY DEF EvidenceValues, FieldNames, Fields1, Fields2, Fields3, Fields4

LEMMA DstackDocument == IsDocument(Dstack)
<1>1. DOMAIN Dstack = FieldNames
  BY DEF Dstack, FieldNames, Fields1, Fields2, Fields3, Fields4
<1>2. \A f \in Fields1 : Dstack[f] \in EvidenceValues[f]
  <2>1. \A f \in Fields1 : EvidenceValues[f] = BOOLEAN
    BY DEF EvidenceValues, Fields1
  <2>2. \A f \in Fields1 : Dstack[f] = TRUE \/ Dstack[f] = FALSE
    BY DEF Dstack, Fields1
  <2> QED
    BY <2>1, <2>2, Zenon
<1>3. \A f \in Fields2 : Dstack[f] \in EvidenceValues[f]
  BY DEF Dstack, EvidenceValues, Fields2
<1>4. \A f \in Fields3 : Dstack[f] \in EvidenceValues[f]
  BY DEF Dstack, EvidenceValues, Fields3
<1>5. \A f \in Fields4 : Dstack[f] \in EvidenceValues[f]
  BY DEF Dstack, EvidenceValues, Fields4
<1> QED
  BY <1>1, <1>2, <1>3, <1>4, <1>5, Names DEF IsDocument, FieldNames

LEMMA Change ==
  ASSUME NEW e, IsDocument(e), NEW f \in DOMAIN EvidenceValues, NEW v \in EvidenceValues[f]
  PROVE  IsDocument([e EXCEPT ![f] = v])
BY DEF IsDocument

LEMMA DocumentFields ==
  ASSUME NEW e, IsDocument(e)
  PROVE  /\ e.quote \in {"tdx", "sev", "none"} /\ e.parses \in BOOLEAN /\ e.genuine \in BOOLEAN
         /\ e.debug \in BOOLEAN /\ e.guestPolicy \in {"valid", "invalid", "undecodable"}
         /\ e.minimumTCB \in BOOLEAN
         /\ e.dataKey \in BOOLEAN /\ e.dataNonce \in BOOLEAN
BY DEF IsDocument, EvidenceValues

LEMMA Sek8sDocument == IsDocument(Sek8s)
<1> DEFINE changed == {"format", "gpus", "address", "fingerprint", "compose", "events"}
<1>1. DOMAIN Dstack = FieldNames /\ changed \subseteq FieldNames
  BY DstackDocument, Names DEF IsDocument, FieldNames, Fields1, Fields2, Fields3, Fields4
<1>2. DOMAIN Sek8s = FieldNames /\ \A f \in FieldNames \ changed : Sek8s[f] = Dstack[f]
  BY <1>1 DEF Sek8s
<1>3. Sek8s["format"] = "chutes" /\ Sek8s["gpus"] = "list" /\ Sek8s["address"] = "absent" /\
      Sek8s["fingerprint"] = "absent" /\ Sek8s["compose"] = "absent" /\ Sek8s["events"] = "absent"
  BY <1>1 DEF Sek8s
<1>4. "chutes" \in EvidenceValues["format"] /\ "list" \in EvidenceValues["gpus"] /\ "absent" \in
      EvidenceValues["address"] /\ "absent" \in EvidenceValues["fingerprint"] /\ "absent" \in
      EvidenceValues["compose"] /\ "absent" \in EvidenceValues["events"]
  BY DEF EvidenceValues
<1>5. \A f \in changed : Sek8s[f] \in EvidenceValues[f]
  BY <1>3, <1>4
<1> QED
  BY <1>2, <1>5, DstackDocument, Names DEF IsDocument

LEMMA TinfoilTDDocument == IsDocument(TinfoilTD)
<1> DEFINE changed == {"format", "RTMR3", "gpus", "gpuHash", "topology", "compose", "events"}
<1>1. DOMAIN Dstack = FieldNames /\ changed \subseteq FieldNames
  BY DstackDocument, Names DEF IsDocument, FieldNames, Fields1, Fields2, Fields3, Fields4
<1>2. DOMAIN TinfoilTD = FieldNames /\ \A f \in FieldNames \ changed : TinfoilTD[f] = Dstack[f]
  BY <1>1 DEF TinfoilTD
<1>3. TinfoilTD["format"] = "tinfoil" /\ TinfoilTD["RTMR3"] = "zero" /\ TinfoilTD["gpus"] = "list" /\
      TinfoilTD["gpuHash"] = "match" /\ TinfoilTD["topology"] = "hopper8" /\ TinfoilTD["compose"] =
      "absent" /\ TinfoilTD["events"] = "absent"
  BY <1>1 DEF TinfoilTD
<1>4. "tinfoil" \in EvidenceValues["format"] /\ "zero" \in EvidenceValues["RTMR3"] /\ "list" \in
      EvidenceValues["gpus"] /\ "match" \in EvidenceValues["gpuHash"] /\ "hopper8" \in
      EvidenceValues["topology"] /\ "absent" \in EvidenceValues["compose"] /\ "absent" \in
      EvidenceValues["events"]
  BY DEF EvidenceValues
<1>5. \A f \in changed : TinfoilTD[f] \in EvidenceValues[f]
  BY <1>3, <1>4
<1> QED
  BY <1>2, <1>5, DstackDocument, Names DEF IsDocument

LEMMA TinfoilGuestDocument == IsDocument(TinfoilGuest)
<1> DEFINE changed == {"quote", "registryID"}
<1>1. DOMAIN TinfoilTD = FieldNames /\ changed \subseteq FieldNames
  BY TinfoilTDDocument, Names DEF IsDocument, FieldNames, Fields1, Fields2, Fields3, Fields4
<1>2. DOMAIN TinfoilGuest = FieldNames /\ \A f \in FieldNames \ changed : TinfoilGuest[f] = TinfoilTD[f]
  BY <1>1 DEF TinfoilGuest
<1>3. TinfoilGuest["quote"] = "sev" /\ TinfoilGuest["registryID"] = FALSE
  BY <1>1 DEF TinfoilGuest
<1>4. "sev" \in EvidenceValues["quote"] /\ FALSE \in EvidenceValues["registryID"]
  BY DEF EvidenceValues
<1>5. \A f \in changed : TinfoilGuest[f] \in EvidenceValues[f]
  BY <1>3, <1>4
<1> QED
  BY <1>2, <1>5, TinfoilTDDocument, Names DEF IsDocument

(***************************************************************************)
(* The inductive invariant                                                 *)
(***************************************************************************)

LEMMA InitEvidence ==
  ASSUME Init
  PROVE  EvidenceInv
<1>1. PICK e \in Nominal(prov) :
        ev = [model |-> e,
              gateway |-> IF prov = "nearcloud" THEN Dstack ELSE [Dstack EXCEPT !.quote = "none"]]
  BY DEF Init
<1>2. /\ DOMAIN ev = Tiers /\ ev.model = e
      /\ ev.gateway = IF prov = "nearcloud" THEN Dstack ELSE [Dstack EXCEPT !.quote = "none"]
  BY <1>1 DEF Tiers
<1>3. /\ Dstack.quote = "tdx" /\ Sek8s.quote = "tdx" /\ TinfoilTD.gpus = "list" /\ TinfoilGuest.gpus = "list"
  <2>1. Dstack.quote = "tdx"
    BY DEF Dstack
  <2>2. Sek8s.quote = "tdx" /\ TinfoilTD.gpus = "list" /\ TinfoilGuest.gpus = "list"
    BY DEF Dstack, Sek8s, TinfoilTD, TinfoilGuest
  <2> QED
    BY <2>1, <2>2
<1>4. /\ IsDocument([Dstack EXCEPT !.quote = "none"])
      /\ [Dstack EXCEPT !.quote = "none"].quote = "none"
  <2>1. "quote" \in DOMAIN Dstack /\ "quote" \in DOMAIN EvidenceValues
    BY DstackDocument, Names DEF IsDocument, FieldNames, Fields3
  <2>2. "none" \in EvidenceValues["quote"]
    BY DEF EvidenceValues
  <2>3. IsDocument([Dstack EXCEPT !["quote"] = "none"])
    BY <2>1, <2>2, DstackDocument, Change
  <2> QED
    BY <2>1, <2>3
<1>5. IsDocument(ev.gateway) /\ ev.gateway.quote \in IF prov = "nearcloud" THEN {"tdx", "none"} ELSE {"none"}
  BY <1>2, <1>3, <1>4, DstackDocument
<1>6. /\ IsDocument(ev.model) /\ (prov \notin Tinfoil => ev.model.quote = "tdx")
      /\ prov \in Tinfoil => ev.model.gpus = "list"
  <2>1. CASE prov = "chutes"
    BY <1>2, <1>3, <2>1, Sek8sDocument DEF Nominal, Tinfoil
  <2>2. CASE prov \in Tinfoil
    BY <1>2, <1>3, <2>2, TinfoilTDDocument, TinfoilGuestDocument DEF Nominal, Tinfoil
  <2>3. CASE prov # "chutes" /\ prov \notin Tinfoil
    BY <1>2, <1>3, <2>3, DstackDocument DEF Nominal
  <2> QED
    BY <2>1, <2>2, <2>3
<1> QED
  BY <1>2, <1>5, <1>6 DEF EvidenceInv, Tiers

LEMMA InitInv ==
  ASSUME Init
  PROVE  Inv
<1>1. ResultsInv
  BY DEF Init, ResultsInv, Stages, Outcomes
<1>2. ReportInv
  BY DEF Init, ReportInv
<1> QED
  BY <1>1, <1>2, InitEvidence, DeviationsAssumption DEF Init, Inv

\* What is off stays within what the parser of the provider delivers.
LEMMA DeliverableValues ==
  ASSUME EvidenceInv, NEW t \in Tiers, NEW f \in DOMAIN EvidenceValues, NEW v \in Deliverable(t, f)
  PROVE  /\ v \in EvidenceValues[f]
         /\ t = "gateway" => prov = "nearcloud"
         /\ f = "quote" => v = "none"
         /\ t = "model" /\ f = "gpus" /\ prov \in Tinfoil => v = "none"
<1>1. /\ EvidenceValues["quote"] = {"tdx", "sev", "none"}
      /\ EvidenceValues["format"] = {"dstack", "chutes", "tinfoil"}
      /\ EvidenceValues["gpus"] = {"eat", "emptyEAT", "notEAT", "list", "none"}
  BY DEF EvidenceValues
<1>2. CASE t = "gateway"
  <2>1. prov = "nearcloud" /\ f # "gpus"
    BY <1>2 DEF Deliverable
  <2>2. CASE f \in {"quote", "format"}
    BY <1>1, <1>2, <2>1, <2>2 DEF Deliverable
  <2>3. CASE f \notin {"quote", "format"}
    <3>1. Deliverable(t, f) = {} \/ Deliverable(t, f) = EvidenceValues[f]
      BY <1>2, <2>1, <2>3 DEF Deliverable
    <3> QED
      BY <1>2, <2>1, <2>3, <3>1
  <2> QED
    BY <2>2, <2>3
<1>3. CASE t = "model"
  <2>1. CASE f = "quote"
    BY <1>1, <1>3, <2>1 DEF Deliverable
  <2>2. CASE f = "gpus"
    <3>1. v \in {"emptyEAT", "notEAT", "none"} /\ (ev[t].gpus \in {"list", "none"} => v = "none")
      BY <1>3, <2>2 DEF Deliverable
    <3> QED
      BY <1>1, <1>3, <2>2, <3>1 DEF EvidenceInv
  <2>3. CASE f = "format"
    BY <1>1, <1>3, <2>3 DEF Deliverable
  <2>4. CASE f \notin {"quote", "gpus", "format"}
    <3>1. Deliverable(t, f) = {} \/ Deliverable(t, f) = EvidenceValues[f]
      BY <1>3, <2>4 DEF Deliverable
    <3> QED
      BY <1>3, <2>4, <3>1
  <2> QED
    BY <2>1, <2>2, <2>3, <2>4
<1> QED
  BY <1>2, <1>3 DEF Tiers

LEMMA DeviateInv ==
  ASSUME Inv, Deviate
  PROVE  Inv'
<1>1. EvidenceInv /\ ResultsInv /\ ReportInv
  BY DEF Inv
<1>2. /\ pc = "fetch" /\ budget' = budget - 1 /\ budget > 0
      /\ UNCHANGED <<pc, mode, prov, offline, conf, res, report>>
  BY DEF Deviate
<1>3. EvidenceInv'
  <2>1. CASE UNCHANGED ev
    BY <1>1, <1>2, <2>1 DEF EvidenceInv
  <2>2. ASSUME NEW t \in Tiers, NEW f \in DOMAIN EvidenceValues, NEW v \in Deliverable(t, f),
               ev' = [ev EXCEPT ![t] = [ev[t] EXCEPT ![f] = v]]
        PROVE  EvidenceInv'
    <3>1. /\ v \in EvidenceValues[f]
          /\ t = "gateway" => prov = "nearcloud"
          /\ f = "quote" => v = "none"
          /\ t = "model" /\ f = "gpus" /\ prov \in Tinfoil => v = "none"
      BY <1>1, DeliverableValues
    <3>2. DOMAIN ev = Tiers /\ IsDocument(ev[t]) /\ f \in DOMAIN ev[t]
      BY <1>1 DEF EvidenceInv, IsDocument
    <3>3. IsDocument([ev[t] EXCEPT ![f] = v])
      BY <3>1, <3>2, Change
    <3>4. /\ DOMAIN ev' = Tiers /\ ev'[t] = [ev[t] EXCEPT ![f] = v]
          /\ \A u \in Tiers : u # t => ev'[u] = ev[u]
      BY <2>2, <3>2
    <3>5. \A u \in Tiers : IsDocument(ev'[u])
      BY <1>1, <3>3, <3>4 DEF EvidenceInv
    <3>6. DOMAIN ev[t] = DOMAIN EvidenceValues
      BY <3>2 DEF IsDocument
    <3>7. /\ ev'[t].quote = ev[t].quote \/ ev'[t].quote = "none"
          /\ t = "model" /\ prov \in Tinfoil => ev'[t].gpus = ev[t].gpus \/ ev'[t].gpus = "none"
      <4>1. "quote" \in DOMAIN ev[t] /\ "gpus" \in DOMAIN ev[t]
        BY <3>6, Names DEF FieldNames, Fields3, Fields4
      <4> QED
        BY <3>1, <3>2, <3>4, <4>1
    <3>8. CASE t = "model"
      <4>1. ev'.gateway = ev.gateway /\ ev'["model"] = ev'.model
        BY <3>4, <3>8 DEF Tiers
      <4> QED
        BY <1>1, <1>2, <3>4, <3>5, <3>7, <3>8, <4>1 DEF EvidenceInv
    <3>9. CASE t = "gateway"
      <4>1. ev'.model = ev.model
        BY <3>4, <3>9 DEF Tiers
      <4> QED
        BY <1>1, <1>2, <3>1, <3>4, <3>5, <3>7, <3>9, <4>1 DEF EvidenceInv
    <3> QED
      BY <3>8, <3>9 DEF Tiers
  <2> QED
    BY <2>1, <2>2 DEF Deviate
<1>4. ResultsInv' /\ ReportInv'
  BY <1>1, <1>2 DEF ResultsInv, ReportInv, Stages
<1>5. budget' \in 0 .. MaxDeviations
  BY <1>2, DeviationsAssumption DEF Inv
<1> QED
  BY <1>2, <1>3, <1>4, <1>5 DEF Inv

\* The verifiers look at the document, the services and the configuration, all
\* of which stay the same once the document was fetched.
LEMMA SameInputs ==
  ASSUME UNCHANGED <<mode, prov, offline, conf, ev, world>>
  PROVE  /\ \A t \in Tiers : VerifyQuote(t)' = VerifyQuote(t)
         /\ VerifyGPUs(ev.model)' = VerifyGPUs(ev.model)
         /\ \A t, r : Policy(t, r)' = Policy(t, r)
         /\ MergedAllowFail' = MergedAllowFail /\ E2EEConfigured' = E2EEConfigured /\ Pinned' = Pinned
         /\ Evaluated' = Evaluated /\ IsTDX(ev.gateway)' = IsTDX(ev.gateway)
<1>1. \A t \in Tiers : VerifyQuote(t)' = VerifyQuote(t)
  BY DEF VerifyQuote, ReportDataBinding, ByFormat, GatewayBinding, VerifyTDXQuote, VerifySEVReport,
         VeniceBinding, NearBinding, ChutesBinding, TinfoilBinding, HasGPU
<1>2. VerifyGPUs(ev.model)' = VerifyGPUs(ev.model)
  BY DEF VerifyGPUs
<1>3. \A t, r : Policy(t, r)' = Policy(t, r)
  BY DEF Policy, MeasurementDefaults
<1>4. MergedAllowFail' = MergedAllowFail
  BY DEF MergedAllowFail
<1>5. Pinned' = Pinned
  BY DEF Pinned
<1>6. E2EEConfigured' = E2EEConfigured
  BY <1>5 DEF E2EEConfigured
<1>7. Evaluated' = Evaluated /\ IsTDX(ev.gateway)' = IsTDX(ev.gateway)
  BY DEF Evaluated, IsTDX
<1> QED
  BY <1>1, <1>2, <1>3, <1>4, <1>5, <1>6, <1>7

LEMMA SameTinfoil ==
  ASSUME UNCHANGED <<mode, prov, offline, conf, ev, world>>, res'.quote = res.quote
  PROVE  TinfoilSupplyChain' = TinfoilSupplyChain
<1>1. Policy("model", "MRSEAM")' = Policy("model", "MRSEAM")
  BY SameInputs
<1> QED
  BY <1>1 DEF TinfoilSupplyChain, HasGPU, TDXPolicyHolds, CodeMatches, HardwareMatches, IsTDX, IsSEV

\* A verifier that adds its result leaves the document and the report alone.
LEMMA StageInv ==
  ASSUME Inv, UNCHANGED <<mode, prov, offline, conf, budget, ev, world, report>>,
         pc # "done", pc' \in (Stages \ {"done"}) \cup {"fetch", "refused"}, ResultsInv'
  PROVE  Inv'
<1>1. EvidenceInv'
  BY DEF Inv, EvidenceInv
<1>2. ReportInv'
  BY DEF Inv, ReportInv, Stages
<1> QED
  BY <1>1, <1>2 DEF Inv

LEMMA LoadInv ==
  ASSUME Inv, Load
  PROVE  Inv'
<1>1. /\ pc = "load" /\ pc' \in {"fetch", "refused"} /\ budget' \in {budget, budget - 1}
      /\ (budget' # budget => budget > 0)
      /\ UNCHANGED <<mode, prov, offline, ev, world, res, report>>
  BY DEF Load
<1>2. EvidenceInv' /\ ReportInv' /\ ResultsInv'
  BY <1>1 DEF Inv, EvidenceInv, ReportInv, ResultsInv, Stages
<1>3. budget' \in 0 .. MaxDeviations
  BY <1>1, DeviationsAssumption DEF Inv
<1> QED
  BY <1>1, <1>2, <1>3 DEF Inv

LEMMA FetchInv ==
  ASSUME Inv, Fetch
  PROVE  Inv'
<1>1. /\ pc = "fetch" /\ pc' \in {"quotes", "refused"}
      /\ UNCHANGED <<mode, prov, offline, conf, budget, ev, world, res, report>>
  BY DEF Fetch
<1>2. ResultsInv'
  BY <1>1 DEF Inv, ResultsInv, Stages
<1> QED
  BY <1>1, <1>2, StageInv DEF Stages

LEMMA VerifyQuotesInv ==
  ASSUME Inv, VerifyQuotes
  PROVE  Inv'
<1>1. /\ pc = "quotes" /\ pc' = "gpus" /\ res' = [res EXCEPT !.quote = [t \in Tiers |-> VerifyQuote(t)]]
      /\ UNCHANGED <<mode, prov, offline, conf, budget, ev, world, report>>
  BY DEF VerifyQuotes
<1>2. [t \in Tiers |-> VerifyQuote(t)'] = [t \in Tiers |-> VerifyQuote(t)]
  BY <1>1, SameInputs
<1>3. ResultsInv'
  BY <1>1, <1>2 DEF Inv, ResultsInv, Stages
<1> QED
  BY <1>1, <1>3, StageInv DEF Stages

LEMMA VerifyNVIDIAInv ==
  ASSUME Inv, VerifyNVIDIA
  PROVE  Inv'
<1>1. /\ pc = "gpus" /\ pc' = "poc"
      /\ \E x : res' = [res EXCEPT !.gpu = VerifyGPUs(ev.model), !.nras = x]
      /\ UNCHANGED <<mode, prov, offline, conf, budget, ev, world, report>>
  BY DEF VerifyNVIDIA
<1>2. /\ [t \in Tiers |-> VerifyQuote(t)'] = [t \in Tiers |-> VerifyQuote(t)]
      /\ VerifyGPUs(ev.model)' = VerifyGPUs(ev.model)
  BY <1>1, SameInputs
<1>3. ResultsInv'
  BY <1>1, <1>2 DEF Inv, ResultsInv, Stages
<1> QED
  BY <1>1, <1>3, StageInv DEF Stages

LEMMA VerifyPoCInv ==
  ASSUME Inv, VerifyPoC
  PROVE  Inv'
<1>1. /\ pc = "poc" /\ pc' = "supply"
      /\ \E x : res' = [res EXCEPT !.poc = x]
      /\ UNCHANGED <<mode, prov, offline, conf, budget, ev, world, report>>
  BY DEF VerifyPoC
<1>2. /\ [t \in Tiers |-> VerifyQuote(t)'] = [t \in Tiers |-> VerifyQuote(t)]
      /\ VerifyGPUs(ev.model)' = VerifyGPUs(ev.model)
  BY <1>1, SameInputs
<1>3. ResultsInv'
  BY <1>1, <1>2 DEF Inv, ResultsInv, Stages
<1> QED
  BY <1>1, <1>3, StageInv DEF Stages

\* A build that passes: the images are vouched for, and the manifests they come
\* from are bound by the quotes of their tiers.
LEMMA VerifySupplyChainInv ==
  ASSUME Inv, VerifySupplyChain
  PROVE  Inv'
<1> DEFINE compose == [t \in Tiers |->
                         CASE ev[t].compose = "absent" \/ ~IsTDX(ev[t]) -> "none"
                           [] OTHER -> ev[t].compose]
           repos(t) == compose[t] = "bound"
           listed == repos("model") /\ (prov = "nearcloud" => repos("gateway"))
           asked == ~offline /\ (repos("model") \/ repos("gateway"))
           vouched == world.images = "vouched"
           sigstore == CASE ~asked -> "Skip" [] OTHER -> IF vouched THEN "Pass" ELSE "Fail"
           build == CASE HasSupplyChainPolicy -> IF listed /\ asked /\ vouched THEN "Pass" ELSE "Fail"
                      [] ~HasSupplyChainPolicy /\ asked -> IF vouched THEN "Pass" ELSE "Fail"
                      [] OTHER -> IF ev.model.compose = "absent" THEN "Fail" ELSE "Skip"
<1>1. /\ pc = "supply" /\ pc' = "tinfoil"
      /\ res' = [res EXCEPT !.compose = compose, !.sigstore = sigstore, !.build = build]
      /\ UNCHANGED <<mode, prov, offline, conf, budget, ev, world, report>>
  BY DEF VerifySupplyChain
<1>2. /\ [t \in Tiers |-> VerifyQuote(t)'] = [t \in Tiers |-> VerifyQuote(t)]
      /\ VerifyGPUs(ev.model)' = VerifyGPUs(ev.model) /\ IsTDX(ev.gateway)' = IsTDX(ev.gateway)
  BY <1>1, SameInputs
<1>3. \A t \in Tiers : compose[t] = "bound" => ev[t].compose = "bound" /\ IsTDX(ev[t])
  OBVIOUS
<1>4. sigstore \in Outcomes /\ build \in Outcomes
  BY DEF Outcomes
<1>5. build = "Pass" => vouched /\ repos("model") /\ (prov = "nearcloud" => repos("gateway"))
  <2>1. prov # "nearcloud" => ~IsTDX(ev.gateway)
    BY DEF Inv, EvidenceInv, IsTDX
  <2>2. prov # "nearcloud" => ~repos("gateway")
    BY <1>3, <2>1 DEF Tiers
  <2>3. prov = "nearcloud" => HasSupplyChainPolicy
    BY DEF HasSupplyChainPolicy
  <2> HIDE DEF compose
  <2> QED
    BY <2>2, <2>3
<1> HIDE DEF compose, sigstore, build
<1>6. /\ DOMAIN res' = DOMAIN res /\ res'.compose = compose /\ res'.sigstore = sigstore /\ res'.build = build
      /\ res'.quote = res.quote /\ res'.gpu = res.gpu /\ res'.tinfoil = res.tinfoil
  BY <1>1 DEF Inv, ResultsInv
<1>7. ResultsInv'
  <2>1. res'.build = "Pass" =>
          /\ world'.images = "vouched" /\ ev'.model.compose = "bound"
          /\ prov' = "nearcloud" => ev'.gateway.compose = "bound" /\ IsTDX(ev.gateway)'
    BY <1>1, <1>2, <1>3, <1>5, <1>6 DEF Tiers
  <2> QED
    BY <1>1, <1>2, <1>3, <1>4, <1>6, <2>1 DEF Inv, ResultsInv, Stages
<1> QED
  BY <1>1, <1>7, StageInv DEF Stages

LEMMA TinfoilInv ==
  ASSUME Inv, VerifyTinfoilSupplyChain
  PROVE  Inv'
<1>1. /\ pc = "tinfoil" /\ pc' = "live"
      /\ res' = IF prov \in Tinfoil THEN [res EXCEPT !.tinfoil = TinfoilSupplyChain] ELSE res
      /\ UNCHANGED <<mode, prov, offline, conf, budget, ev, world, report>>
  BY DEF VerifyTinfoilSupplyChain
<1>2. /\ [t \in Tiers |-> VerifyQuote(t)'] = [t \in Tiers |-> VerifyQuote(t)]
      /\ VerifyGPUs(ev.model)' = VerifyGPUs(ev.model) /\ IsTDX(ev.gateway)' = IsTDX(ev.gateway)
  BY <1>1, SameInputs
<1>3. /\ DOMAIN res' = DOMAIN res /\ res'.compose = res.compose /\ res'.sigstore = res.sigstore
      /\ res'.build = res.build /\ res'.quote = res.quote /\ res'.gpu = res.gpu
      /\ res'.tinfoil = IF prov \in Tinfoil THEN TinfoilSupplyChain ELSE res.tinfoil
  BY <1>1 DEF Inv, ResultsInv
<1>4. TinfoilSupplyChain' = TinfoilSupplyChain
  BY <1>1, <1>3, SameTinfoil
<1>5. ResultsInv'
  BY <1>1, <1>2, <1>3, <1>4 DEF Inv, ResultsInv, Stages
<1> QED
  BY <1>1, <1>5, StageInv DEF Stages

\* The results are complete: only the live test's may be added.
LEMMA SameResults ==
  ASSUME Inv, pc \in {"live", "report", "done"}, pc' \in {"report", "done"},
         UNCHANGED <<mode, prov, offline, conf, ev, world>>,
         res' = res \/ \E x : res' = [res EXCEPT !.live = x]
  PROVE  ResultsInv'
<1>2. /\ [t \in Tiers |-> VerifyQuote(t)'] = [t \in Tiers |-> VerifyQuote(t)]
      /\ VerifyGPUs(ev.model)' = VerifyGPUs(ev.model) /\ IsTDX(ev.gateway)' = IsTDX(ev.gateway)
  BY SameInputs
<1>3. /\ DOMAIN res' = DOMAIN res /\ res'.compose = res.compose /\ res'.sigstore = res.sigstore
      /\ res'.build = res.build /\ res'.quote = res.quote /\ res'.gpu = res.gpu
      /\ res'.tinfoil = res.tinfoil
  BY DEF Inv, ResultsInv
<1>4. TinfoilSupplyChain' = TinfoilSupplyChain
  BY <1>3, SameTinfoil
<1> QED
  BY <1>2, <1>3, <1>4 DEF Inv, ResultsInv, Stages

LEMMA LiveTestInv ==
  ASSUME Inv, LiveTest
  PROVE  Inv'
<1>1. /\ pc = "live" /\ pc' = "report" /\ \E x : res' = [res EXCEPT !.live = x]
      /\ UNCHANGED <<mode, prov, offline, conf, budget, ev, world, report>>
  BY DEF LiveTest
<1>2. ResultsInv'
  BY <1>1, SameResults
<1> QED
  BY <1>1, <1>2, StageInv DEF Stages

(***************************************************************************)
(* The report                                                              *)
(***************************************************************************)

LEMMA CoreType ==
  ASSUME NEW t, NEW n \in CoreNames
  PROVE  CoreFactors(t)[n] \in Outcomes
<1>1. \A b : Check(b) \in Outcomes
  BY DEF Check, Outcomes
<1>2. \A u, registers : InAllowlists(u, registers) \in Outcomes
  BY <1>1 DEF InAllowlists, Outcomes
<1>3. CertChain(t) \in Outcomes /\ DebugDisabled(t) \in Outcomes /\ EventLogIntegrity(t) \in Outcomes
  BY <1>1 DEF CertChain, DebugDisabled, EventLogIntegrity, Outcomes
<1>4. TEEMeasurement(t) \in Outcomes /\ TEEHardwareConfig(t) \in Outcomes /\ TEEBootConfig(t) \in Outcomes
  BY <1>1, <1>2 DEF TEEMeasurement, TEEHardwareConfig, TEEBootConfig, Outcomes
<1>5. CPUIDRegistry(t) \in Outcomes
  BY DEF CPUIDRegistry, Outcomes
<1>6. "Skip" \in Outcomes
  BY DEF Outcomes
<1> QED
  BY <1>1, <1>3, <1>4, <1>5, <1>6 DEF CoreFactors, CoreNames

LEMMA EvaluateType ==
  ASSUME ResultsInv, NEW f \in Evaluated
  PROVE  Evaluate(f) \in Outcomes
<1>1. \A b : Check(b) \in Outcomes
  BY DEF Check, Outcomes
<1>2. {"Pass", "Fail", "Skip"} \subseteq Outcomes /\ res.build \in Outcomes /\ res.sigstore \in Outcomes
  BY DEF Outcomes, ResultsInv
<1>3. f[2] \in ModelNames
  BY DEF Evaluated, M, G, ModelNames
<1>4. \A n \in DOMAIN PlatformFactors : PlatformFactors[n] \in Outcomes
  BY <1>1, <1>2 DEF PlatformFactors
<1>5. \A n \in DOMAIN GPUFactors : GPUFactors[n] \in Outcomes
  BY <1>1, <1>2 DEF GPUFactors
<1>6. \A n \in DOMAIN ChannelFactors : ChannelFactors[n] \in Outcomes
  BY <1>1, <1>2 DEF ChannelFactors
<1>7. \A n \in DOMAIN SupplyChainFactors : SupplyChainFactors[n] \in Outcomes
  BY <1>1, <1>2 DEF SupplyChainFactors
<1>8. f[2] \in CoreNames \cup DOMAIN PlatformFactors \cup DOMAIN GPUFactors \cup DOMAIN ChannelFactors
                \cup DOMAIN SupplyChainFactors
  BY <1>3 DEF ModelNames, PlatformFactors, GPUFactors, ChannelFactors, SupplyChainFactors
<1> QED
  BY <1>4, <1>5, <1>6, <1>7, <1>8, CoreType DEF Evaluate

LEMMA BuildType ==
  ASSUME ResultsInv
  PROVE  /\ BuildReport.built /\ BuildReport.enforced = Evaluated \ MergedAllowFail
         /\ BuildReport.status \in [Evaluated -> Statuses]
         /\ BuildReport.counters = Counters(BuildReport.status, BuildReport.enforced)
<1> DEFINE enforced == Evaluated \ MergedAllowFail
           inapplicable == IF Pinned THEN {} ELSE Inapplicable(prov)
           status == [f \in Evaluated |-> IF f \in inapplicable THEN "NotApplicable"
                                          ELSE PromoteSkips(f, Evaluate(f), enforced)]
<1>1. \A f \in Evaluated : Evaluate(f) \in Outcomes
  BY EvaluateType
<1>2. status \in [Evaluated -> Statuses]
  BY <1>1 DEF PromoteSkips, Outcomes, Statuses
<1>3. BuildReport = Report(status, enforced)
  BY DEF BuildReport
<1> HIDE DEF status, enforced
<1>4. /\ BuildReport.built /\ BuildReport.enforced = enforced /\ BuildReport.status = status
      /\ BuildReport.counters = Counters(status, enforced)
  BY <1>3 DEF Report
<1> QED
  BY <1>2, <1>4 DEF enforced

\* The report is a function of the results: built again, it is the same.
LEMMA SameReport ==
  ASSUME UNCHANGED <<mode, prov, offline, conf, ev, world, res>>
  PROVE  BuildReport' = BuildReport
<1>1. /\ \A t, r : Policy(t, r)' = Policy(t, r)
      /\ MergedAllowFail' = MergedAllowFail /\ E2EEConfigured' = E2EEConfigured /\ Pinned' = Pinned
      /\ Evaluated' = Evaluated
  BY SameInputs
<1>2. \A t, registers : InAllowlists(t, registers)' = InAllowlists(t, registers)
  BY <1>1 DEF InAllowlists
<1>3. \A t : CoreFactors(t)' = CoreFactors(t)
  <2> TAKE t
  <2>1. CertChain(t)' = CertChain(t) /\ DebugDisabled(t)' = DebugDisabled(t)
        /\ EventLogIntegrity(t)' = EventLogIntegrity(t) /\ CPUIDRegistry(t)' = CPUIDRegistry(t)
    BY DEF CertChain, DebugDisabled, EventLogIntegrity, CPUIDRegistry, IsSEV, IsTDX
  <2>2. TEEMeasurement(t)' = TEEMeasurement(t)
    BY <1>2 DEF TEEMeasurement, IsSEV, IsTDX
  <2>3. TEEHardwareConfig(t)' = TEEHardwareConfig(t)
    BY <1>2 DEF TEEHardwareConfig, IsSEV, IsTDX
  <2>4. TEEBootConfig(t)' = TEEBootConfig(t)
    BY <1>2 DEF TEEBootConfig, IsSEV, IsTDX
  <2> QED
    BY <2>1, <2>2, <2>3, <2>4 DEF CoreFactors
<1>4. PlatformFactors' = PlatformFactors
  BY DEF PlatformFactors, IsSEV, IsTDX
<1>5. GPUFactors' = GPUFactors /\ ChannelFactors' = ChannelFactors
  BY DEF GPUFactors, ChannelFactors
<1>6. SupplyChainFactors' = SupplyChainFactors
  BY DEF SupplyChainFactors
<1>7. \A f : Evaluate(f)' = Evaluate(f)
  BY <1>3, <1>4, <1>5, <1>6 DEF Evaluate
<1>8. Deferred' = Deferred
  BY <1>1 DEF Deferred
<1> QED
  BY <1>1, <1>7, <1>8 DEF BuildReport, PromoteSkips

LEMMA MakeReportInv ==
  ASSUME Inv, MakeReport
  PROVE  Inv'
<1>1. /\ pc = "report" /\ pc' = "done" /\ report' = BuildReport
      /\ UNCHANGED <<mode, prov, offline, conf, budget, ev, world, res>>
  BY DEF MakeReport
<1>2. ResultsInv' /\ EvidenceInv'
  BY <1>1, SameResults DEF Inv, EvidenceInv
<1>3. BuildReport' = BuildReport /\ Evaluated' = Evaluated /\ MergedAllowFail' = MergedAllowFail
  BY <1>1, SameReport, SameInputs
<1>4. /\ BuildReport.built /\ BuildReport.enforced = Evaluated \ MergedAllowFail
      /\ BuildReport.status \in [Evaluated -> Statuses]
      /\ BuildReport.counters = Counters(BuildReport.status, BuildReport.enforced)
  BY BuildType DEF Inv
<1>5. BuildReport.built = TRUE
  BY DEF BuildReport, Report
<1>6. ReportInv'
  BY <1>1, <1>3, <1>4, <1>5 DEF ReportInv
<1> QED
  BY <1>1, <1>2, <1>6 DEF Inv, Stages

LEMMA UsableEvaluated == Usable \in Evaluated
BY DEF Usable, Evaluated, M, ModelNames

\* What MarkE2EEUsable and MarkE2EEFailed do to a report.
LEMMA MarkEffect ==
  ASSUME Inv, MarkE2EEUsable \/ MarkE2EEFailed
  PROVE  /\ pc = "done" /\ UNCHANGED <<pc, mode, prov, offline, conf, budget, ev, world, res>>
         /\ report'.built = TRUE /\ report'.enforced = report.enforced
         /\ report'.status \in [Evaluated -> Statuses]
         /\ report'.counters = Counters(report'.status, report'.enforced)
         /\ \A f \in Evaluated \ {Usable} : report'.status[f] = report.status[f]
         /\ report.status[Usable] = "Fail" => report'.status[Usable] = "Fail"
<1>1. PICK s \in {"Pass", "Fail"} :
        /\ E2EEUsed /\ report' = Report(MarkUsable(s), report.enforced)
        /\ s = "Pass" => report.status[Usable] # "Fail"
        /\ UNCHANGED <<pc, mode, prov, offline, conf, budget, ev, world, res>>
  BY DEF MarkE2EEUsable, MarkE2EEFailed
<1>2. pc = "done" /\ report.status \in [Evaluated -> Statuses]
  BY <1>1 DEF E2EEUsed, Inv, ReportInv
<1> DEFINE status == [report.status EXCEPT ![Usable] = s]
<1>3. /\ status \in [Evaluated -> Statuses] /\ status[Usable] = s
      /\ \A f \in Evaluated \ {Usable} : status[f] = report.status[f]
  BY <1>2, UsableEvaluated DEF Statuses
<1>4. report' = Report(status, report.enforced)
  BY <1>1 DEF MarkUsable
<1> HIDE DEF status
<1>5. /\ report'.built = TRUE /\ report'.enforced = report.enforced /\ report'.status = status
      /\ report'.counters = Counters(status, report.enforced)
  BY <1>4 DEF Report
<1> QED
  BY <1>1, <1>2, <1>3, <1>5

LEMMA MarkInv ==
  ASSUME Inv, MarkE2EEUsable \/ MarkE2EEFailed
  PROVE  Inv'
<1>1. /\ pc = "done" /\ UNCHANGED <<pc, mode, prov, offline, conf, budget, ev, world, res>>
      /\ report'.built = TRUE /\ report'.enforced = report.enforced
      /\ report'.status \in [Evaluated -> Statuses]
      /\ report'.counters = Counters(report'.status, report'.enforced)
      /\ \A f \in Evaluated \ {Usable} : report'.status[f] = report.status[f]
  BY MarkEffect
<1>2. ResultsInv' /\ EvidenceInv'
  BY <1>1, SameResults DEF Inv, EvidenceInv
<1>3. BuildReport' = BuildReport /\ Evaluated' = Evaluated /\ MergedAllowFail' = MergedAllowFail
  BY <1>1, SameReport, SameInputs
<1>4. ReportInv'
  BY <1>1, <1>3 DEF Inv, ReportInv
<1> QED
  BY <1>1, <1>2, <1>4 DEF Inv

LEMMA StutterInv ==
  ASSUME Inv, UNCHANGED vars
  PROVE  Inv'
<1>1. UNCHANGED <<pc, mode, prov, offline, conf, budget, ev, world, res, report>>
  BY DEF vars
<1>2. EvidenceInv'
  BY <1>1 DEF Inv, EvidenceInv
<1>3. /\ [t \in Tiers |-> VerifyQuote(t)'] = [t \in Tiers |-> VerifyQuote(t)]
      /\ VerifyGPUs(ev.model)' = VerifyGPUs(ev.model) /\ IsTDX(ev.gateway)' = IsTDX(ev.gateway)
      /\ TinfoilSupplyChain' = TinfoilSupplyChain
  BY <1>1, SameInputs, SameTinfoil
<1>4. ResultsInv'
  BY <1>1, <1>3 DEF Inv, ResultsInv
<1>5. BuildReport' = BuildReport /\ Evaluated' = Evaluated /\ MergedAllowFail' = MergedAllowFail
  BY <1>1, SameReport, SameInputs
<1>6. ReportInv'
  BY <1>1, <1>5 DEF Inv, ReportInv
<1> QED
  BY <1>1, <1>2, <1>4, <1>6 DEF Inv

\* The inductive invariant of a verification holds: the document is one the
\* provider's parser delivers, each result is the verifier's verdict on it, and
\* the report is the one that was built, but for e2ee_usable.
THEOREM Invariance == Spec => []Inv
<1>1. Init => Inv
  BY InitInv
<1>2. Inv /\ [Next]_vars => Inv'
  BY LoadInv, DeviateInv, FetchInv, VerifyQuotesInv, VerifyNVIDIAInv, VerifyPoCInv,
     VerifySupplyChainInv, TinfoilInv, LiveTestInv, MakeReportInv, MarkInv, StutterInv DEF Next
<1> QED
  BY <1>1, <1>2, PTL DEF Spec

(***************************************************************************)
(* A failure is final                                                      *)
(***************************************************************************)

\* Once a report is built only e2ee_usable moves, its failure is final, and a
\* report that blocks never stops blocking, in whatever order the requests that
\* share it end (MarkE2EEUsable, MarkE2EEFailed).
THEOREM FinalFailure == Spec => FailureIsFinal
<1> DEFINE A == report.built =>
                  /\ \A f \in DOMAIN report.status \ {Usable} : report'.status[f] = report.status[f]
                  /\ report.status[Usable] = "Fail" => report'.status[Usable] = "Fail"
                  /\ Blocked(report) => Blocked(report')
<1>1. ASSUME Inv, [Next]_vars PROVE [A]_vars
  <2>1. CASE UNCHANGED vars
    BY <2>1
  <2>2. CASE ~report.built
    BY <2>2
  <2>3. CASE report.built /\ Next
    <3>1. pc = "done" /\ report.status \in [Evaluated -> Statuses]
      BY <1>1, <2>3 DEF Inv, ReportInv
    <3>2. MarkE2EEUsable \/ MarkE2EEFailed
      BY <2>3, <3>1 DEF Next, Load, Deviate, Fetch, VerifyQuotes, VerifyNVIDIA, VerifyPoC,
                        VerifySupplyChain, VerifyTinfoilSupplyChain, LiveTest, MakeReport
    <3>3. /\ report'.enforced = report.enforced /\ report'.status \in [Evaluated -> Statuses]
          /\ \A f \in Evaluated \ {Usable} : report'.status[f] = report.status[f]
          /\ report.status[Usable] = "Fail" => report'.status[Usable] = "Fail"
      BY <1>1, <3>2, MarkEffect
    <3>4. Blocked(report) => Blocked(report')
      BY <3>1, <3>3 DEF Blocked
    <3> QED
      BY <3>1, <3>3, <3>4
  <2> QED
    BY <1>1, <2>1, <2>2, <2>3
<1>2. Inv /\ [Next]_vars => [A]_vars
  BY <1>1
<1> QED
  BY <1>2, Invariance, PTL DEF Spec, FailureIsFinal

(***************************************************************************)
(* What a report that does not block has shown                             *)
(***************************************************************************)

\* A factor that has to pass: it applies, it is enforced, and it is not the
\* one that a live test decides later.
Required(f) == /\ f \in Evaluated /\ f # Usable /\ Enforces(f)
               /\ Pinned \/ f \notin Inapplicable(prov)

LEMMA RequiredPasses ==
  ASSUME Inv, pc = "done", ~Blocked(report), NEW f, Required(f)
  PROVE  Evaluate(f) = "Pass"
<1> DEFINE enforced == Evaluated \ MergedAllowFail
           inapplicable == IF Pinned THEN {} ELSE Inapplicable(prov)
           status == [g \in Evaluated |-> IF g \in inapplicable THEN "NotApplicable"
                                          ELSE PromoteSkips(g, Evaluate(g), enforced)]
<1>1. f \in enforced /\ f \notin inapplicable /\ f \notin Deferred /\ f \in Evaluated
  BY DEF Required, Enforces, Deferred, M, Usable
<1>2. BuildReport.status = status
  BY DEF BuildReport, Report
<1>3. status[f] = PromoteSkips(f, Evaluate(f), enforced)
  BY <1>1
<1>4. report.status[f] = status[f] /\ DOMAIN report.status = Evaluated /\ report.enforced = enforced
  <2> HIDE DEF status
  <2> QED
    BY <1>1, <1>2 DEF Inv, ReportInv, Required
<1>5. PromoteSkips(f, Evaluate(f), enforced) # "Fail"
  BY <1>1, <1>3, <1>4 DEF Blocked
<1>6. Evaluate(f) \in Outcomes
  BY <1>1, EvaluateType DEF Inv
<1> QED
  BY <1>1, <1>5, <1>6 DEF PromoteSkips, Outcomes

\* The results of a finished verification.
LEMMA Finished ==
  ASSUME Inv, pc = "done"
  PROVE  /\ \A t \in Tiers : res.quote[t] = VerifyQuote(t) /\ IsDocument(ev[t])
         /\ res.gpu = VerifyGPUs(ev.model)
         /\ \A t \in Tiers : res.compose[t] = "bound" => ev[t].compose = "bound"
         /\ res.build = "Pass" =>
              /\ world.images = "vouched" /\ ev.model.compose = "bound"
              /\ prov = "nearcloud" => ev.gateway.compose = "bound" /\ IsTDX(ev.gateway)
         /\ prov \in Tinfoil => res.tinfoil = TinfoilSupplyChain
         /\ prov \notin Tinfoil => res.tinfoil.code = "none" /\ ~res.tinfoil.gpuBound /\ ~res.tinfoil.ran
BY DEF Inv, EvidenceInv, ResultsInv, Stages

\* What VerifyTDXQuote and VerifySEVReport say of a quote they could parse.
LEMMA QuoteFacts ==
  ASSUME NEW t \in Tiers, IsDocument(ev[t]), VerifyQuote(t).parsed
  PROVE  LET e == ev[t] q == VerifyQuote(t) IN
         /\ e.quote # "none" /\ e.parses
         /\ q.chain => e.genuine
         /\ e.quote = "tdx" => /\ q.debug = e.debug
                               /\ q.tcb # "none" => q.tcb = world.pcs
         /\ e.quote = "sev" => /\ e.guestPolicy # "undecodable" => q.debug = e.debug /\ q.minimumTCB = e.minimumTCB
                               /\ e.guestPolicy = "undecodable" => ~q.policy
         /\ q.data = "bound" => e.dataKey /\ e.dataNonce
         /\ q.data = "bound" /\ t = "model" /\ prov \in Tinfoil /\ HasGPU(e) => e.gpuHash = "match"
<1> DEFINE e == ev[t]
           data == CASE t = "model" -> ReportDataBinding(prov, ByFormat, ev[t])
                     [] OTHER -> IF GatewayBinding(ev[t]) THEN "bound" ELSE "refused"
<1>1. data = "bound" => /\ e.dataKey /\ e.dataNonce
                        /\ t = "model" /\ prov \in Tinfoil /\ HasGPU(e) => e.gpuHash = "match"
  <2>1. CASE t = "gateway"
    BY <2>1 DEF GatewayBinding
  <2>2. CASE t = "model"
    BY <2>2 DEF ReportDataBinding, VeniceBinding, NearBinding, ChutesBinding, TinfoilBinding, Tinfoil, ByFormat
  <2> QED
    BY <2>1, <2>2 DEF Tiers
<1>2. VerifyQuote(t) = CASE e.quote = "tdx" -> VerifyTDXQuote(e, data, offline, world.pcs)
                         [] e.quote = "sev" -> VerifySEVReport(e, data, offline, world.kds)
                         [] OTHER -> NoQuote
  BY DEF VerifyQuote
<1>3. ~NoQuote.parsed
  BY DEF NoQuote
<1>4. e.quote \in {"tdx", "sev", "none"} /\ e.debug \in BOOLEAN /\ e.minimumTCB \in BOOLEAN
  BY DocumentFields
<1> HIDE DEF data, e
<1>5. CASE e.quote = "tdx"
  <2>1. VerifyQuote(t) = VerifyTDXQuote(e, data, offline, world.pcs) /\ e.parses
    BY <1>2, <1>3, <1>5 DEF VerifyTDXQuote
  <2>2. /\ VerifyQuote(t).chain = e.genuine /\ VerifyQuote(t).debug = e.debug /\ VerifyQuote(t).data = data
        /\ VerifyQuote(t).tcb = IF offline \/ ~e.genuine THEN "none" ELSE world.pcs
    BY <2>1 DEF VerifyTDXQuote, NoQuote
  <2> QED
    BY <1>1, <1>5, <2>1, <2>2 DEF e
<1>6. CASE e.quote = "sev"
  <2>1. VerifyQuote(t) = VerifySEVReport(e, data, offline, world.kds) /\ e.parses
    BY <1>2, <1>3, <1>6 DEF VerifySEVReport
  <2>2. /\ VerifyQuote(t).chain = (e.genuine /\ world.kds) /\ VerifyQuote(t).data = data
        /\ VerifyQuote(t).debug = (e.guestPolicy # "undecodable" /\ e.debug)
        /\ VerifyQuote(t).policy = (e.guestPolicy = "valid" /\ ~e.debug)
        /\ VerifyQuote(t).minimumTCB = (e.guestPolicy = "undecodable" \/ e.minimumTCB)
    BY <2>1 DEF VerifySEVReport, NoQuote
  <2>3. e.guestPolicy # "undecodable" => VerifyQuote(t).debug = e.debug /\ VerifyQuote(t).minimumTCB = e.minimumTCB
    BY <1>4, <2>2
  <2> QED
    BY <1>1, <1>6, <2>1, <2>2, <2>3 DEF e
<1>7. CASE e.quote = "none"
  BY <1>2, <1>3, <1>7
<1> QED
  BY <1>4, <1>5, <1>6, <1>7

LEMMA CheckPass == \A b : Check(b) = "Pass" => b
BY DEF Check

LEMMA CoreEvaluate == \A t : \A n \in CoreNames : Evaluate(<<t, n>>) = CoreFactors(t)[n]
<1>1. \A n \in CoreNames : /\ n \notin DOMAIN PlatformFactors /\ n \notin DOMAIN GPUFactors
                           /\ n \notin DOMAIN ChannelFactors
  BY DEF CoreNames, PlatformFactors, GPUFactors, ChannelFactors
<1> QED
  BY <1>1 DEF Evaluate

\* The evaluator of each factor that makes a promise.
LEMMA CoreEvaluators ==
  ASSUME NEW t
  PROVE  /\ Evaluate(<<t, "nonce_match">>) = Check(ev[t].nonce = "ours")
         /\ Evaluate(<<t, "cert_chain">>) = CertChain(t)
         /\ Evaluate(<<t, "quote_signature">>) = CertChain(t)
         /\ Evaluate(<<t, "debug_disabled">>) = DebugDisabled(t)
         /\ Evaluate(<<t, "measurement">>) = TEEMeasurement(t)
         /\ Evaluate(<<t, "hardware_config">>) = TEEHardwareConfig(t)
         /\ Evaluate(<<t, "reportdata_binding">>) =
              Check(res.quote[t].parsed /\ res.quote[t].data = "bound" /\ (t = "model" => ev[t].key # "absent"))
         /\ Evaluate(<<t, "compose_binding">>) =
              IF res.compose[t] = "none" THEN "Skip" ELSE Check(res.compose[t] = "bound")
         /\ Evaluate(<<t, "event_log_integrity">>) = EventLogIntegrity(t)
<1>1. /\ "nonce_match" \in CoreNames /\ "cert_chain" \in CoreNames /\ "quote_signature" \in CoreNames
      /\ "debug_disabled" \in CoreNames /\ "measurement" \in CoreNames /\ "hardware_config" \in CoreNames
      /\ "reportdata_binding" \in CoreNames /\ "compose_binding" \in CoreNames
      /\ "event_log_integrity" \in CoreNames
  BY DEF CoreNames
<1>2. /\ CoreFactors(t)["nonce_match"] = Check(ev[t].nonce = "ours")
      /\ CoreFactors(t)["cert_chain"] = CertChain(t)
      /\ CoreFactors(t)["quote_signature"] = CertChain(t)
      /\ CoreFactors(t)["debug_disabled"] = DebugDisabled(t)
      /\ CoreFactors(t)["measurement"] = TEEMeasurement(t)
      /\ CoreFactors(t)["hardware_config"] = TEEHardwareConfig(t)
      /\ CoreFactors(t)["event_log_integrity"] = EventLogIntegrity(t)
  BY DEF CoreFactors
<1>3. CoreFactors(t)["reportdata_binding"] =
        Check(res.quote[t].parsed /\ res.quote[t].data = "bound" /\ (t = "model" => ev[t].key # "absent"))
  BY DEF CoreFactors
<1>4. CoreFactors(t)["compose_binding"] =
        IF res.compose[t] = "none" THEN "Skip" ELSE Check(res.compose[t] = "bound")
  BY DEF CoreFactors
<1> QED
  BY <1>1, <1>2, <1>3, <1>4, CoreEvaluate, Zenon

LEMMA ModelEvaluators ==
  /\ Evaluate(<<"model", "tcb_current">>) = PlatformFactors.tcb_current
  /\ Evaluate(<<"model", "tcb_not_revoked">>) = PlatformFactors.tcb_not_revoked
  /\ Evaluate(<<"model", "nvidia_signature">>) = GPUFactors.nvidia_signature
  /\ Evaluate(<<"model", "nvidia_nonce_client_bound">>) = GPUFactors.nvidia_nonce_client_bound
  /\ Evaluate(<<"model", "cpu_gpu_chain">>) = SupplyChainFactors.cpu_gpu_chain
  /\ Evaluate(<<"model", "build_transparency_log">>) = SupplyChainFactors.build_transparency_log
  /\ Evaluate(<<"model", "sigstore_code_verified">>) = SupplyChainFactors.sigstore_code_verified
<1>1. /\ DOMAIN PlatformFactors = {"pcs_collateral", "tcb_current", "tcb_not_revoked"}
      /\ DOMAIN GPUFactors = {"nvidia_payload_present", "nvidia_signature", "nvidia_claims",
                              "nvidia_nonce_client_bound", "nvidia_nras_verified"}
      /\ DOMAIN ChannelFactors = {"signing_key_present", "response_schema", "e2ee_capable", "e2ee_usable",
                                  "tls_key_binding"}
  BY DEF PlatformFactors, GPUFactors, ChannelFactors
<1> QED
  BY <1>1 DEF Evaluate, CoreNames

\* The promises of the quote: both tiers.
LEMMA QuotePromises ==
  ASSUME Inv, pc = "done", ~Blocked(report), NEW t \in Tiers, NEW n, Required(<<t, n>>),
         n \in {"nonce_match", "cert_chain", "quote_signature", "reportdata_binding", "compose_binding",
                "event_log_integrity"}
  PROVE  Promise(<<t, n>>)
<1>1. Evaluate(<<t, n>>) = "Pass"
  BY RequiredPasses
<1>2. res.quote[t] = VerifyQuote(t) /\ IsDocument(ev[t]) /\ (res.compose[t] = "bound" => ev[t].compose = "bound")
  BY Finished
<1>3. CASE n = "nonce_match"
  <2>0. Evaluate(<<t, "nonce_match">>) = Check(ev[t].nonce = "ours")
    BY CoreEvaluators
  <2>1. ev[t].nonce = "ours"
    BY <1>1, <1>3, <2>0, CheckPass
  <2> QED
    BY <1>3, <2>1 DEF Promise
<1>4. CASE n \in {"cert_chain", "quote_signature"}
  <2>0. Evaluate(<<t, "cert_chain">>) = CertChain(t) /\ Evaluate(<<t, "quote_signature">>) = CertChain(t)
    BY CoreEvaluators
  <2>1. CertChain(t) = "Pass"
    BY <1>1, <1>4, <2>0
  <2>2. res.quote[t].parsed /\ res.quote[t].chain
    BY <2>1, CheckPass DEF CertChain
  <2>3. Genuine(ev[t])
    BY <1>2, <2>2, QuoteFacts DEF Genuine
  <2> QED
    BY <1>4, <2>3 DEF Promise
<1>5. CASE n = "reportdata_binding"
  <2>0. Evaluate(<<t, "reportdata_binding">>) =
          Check(res.quote[t].parsed /\ res.quote[t].data = "bound" /\ (t = "model" => ev[t].key # "absent"))
    BY CoreEvaluators
  <2>1. res.quote[t].parsed /\ res.quote[t].data = "bound" /\ (t = "model" => ev[t].key # "absent")
    BY <1>1, <1>5, <2>0, CheckPass
  <2>2. ev[t].dataKey /\ ev[t].dataNonce
    BY <1>2, <2>1, QuoteFacts
  <2> QED
    BY <1>5, <2>1, <2>2 DEF Promise
<1>6. CASE n = "compose_binding"
  <2>0. Evaluate(<<t, "compose_binding">>) =
          IF res.compose[t] = "none" THEN "Skip" ELSE Check(res.compose[t] = "bound")
    BY CoreEvaluators
  <2>1. ev[t].compose = "bound"
    BY <1>1, <1>2, <1>6, <2>0, CheckPass
  <2> QED
    BY <1>6, <2>1 DEF Promise
<1>7. CASE n = "event_log_integrity"
  <2>0. EventLogIntegrity(t) = "Pass"
    BY <1>1, <1>7, CoreEvaluators
  <2>1. ev[t].events = "match"
    BY <2>0, CheckPass DEF EventLogIntegrity
  <2> QED
    BY <1>7, <2>1 DEF Promise
<1> QED
  BY <1>3, <1>4, <1>5, <1>6, <1>7

\* A guest policy that cannot be decoded fails hardware_config.
LEMMA DecodedPolicy ==
  ASSUME Inv, pc = "done", ~Blocked(report), NEW t \in Tiers, PolicyDecoded(t),
         ev[t].quote = "sev", res.quote[t].parsed
  PROVE  ev[t].guestPolicy # "undecodable"
<1> SUFFICES ASSUME ev[t].guestPolicy = "undecodable" PROVE FALSE
  OBVIOUS
<1>1. Enforces(<<t, "hardware_config">>)
  BY DEF PolicyDecoded
<1>2. t = "model" /\ prov \in Tinfoil
  BY DEF Inv, EvidenceInv, Tiers
<1>3. Required(<<t, "hardware_config">>)
  BY <1>1, <1>2 DEF Required, Evaluated, M, ModelNames, CoreNames, Usable, Inapplicable
<1>4. TEEHardwareConfig(t) = "Pass"
  <2>1. Evaluate(<<t, "hardware_config">>) = "Pass"
    BY <1>3, RequiredPasses
  <2>2. Evaluate(<<t, "hardware_config">>) = TEEHardwareConfig(t)
    BY CoreEvaluators
  <2> QED
    BY <2>1, <2>2
<1>5. res.quote[t] = VerifyQuote(t) /\ IsDocument(ev[t]) /\ res.tinfoil = TinfoilSupplyChain
  BY <1>2, Finished
<1>6. ~res.quote[t].policy /\ IsSEV(ev[t]) /\ ~IsTDX(ev[t])
  BY <1>5, QuoteFacts DEF IsSEV, IsTDX
<1>7. res.tinfoil.policy = "none"
  BY <1>2, <1>5, <1>6 DEF TinfoilSupplyChain
<1> QED
  BY <1>4, <1>6, <1>7, CheckPass DEF TEEHardwareConfig

LEMMA DebugPromise ==
  ASSUME Inv, pc = "done", ~Blocked(report), NEW t \in Tiers, Required(<<t, "debug_disabled">>)
  PROVE  Promise(<<t, "debug_disabled">>)
<1>1. DebugDisabled(t) = "Pass"
  BY RequiredPasses, CoreEvaluators
<1>2. res.quote[t].parsed /\ ~res.quote[t].debug
  BY <1>1, CheckPass DEF DebugDisabled
<1>3. res.quote[t] = VerifyQuote(t) /\ IsDocument(ev[t])
  BY Finished
<1>4. ev[t].quote \in {"tdx", "sev"} /\ ev[t].parses
  BY <1>2, <1>3, QuoteFacts, DocumentFields
<1>5. PolicyDecoded(t) => ~ev[t].debug
  BY <1>2, <1>3, <1>4, QuoteFacts, DecodedPolicy
<1> QED
  BY <1>4, <1>5 DEF Promise

LEMMA TCBPromises ==
  ASSUME Inv, pc = "done", ~Blocked(report), NEW n \in {"tcb_current", "tcb_not_revoked"},
         Required(<<"model", n>>)
  PROVE  Promise(<<"model", n>>)
<1> DEFINE e == ev.model
           q == res.quote["model"]
<1>1. Evaluate(<<"model", n>>) = "Pass"
  BY RequiredPasses
<1>2. q = VerifyQuote("model") /\ IsDocument(ev["model"])
  BY Finished DEF Tiers
<1>3. e.quote \in {"tdx", "sev", "none"}
  BY <1>2, DocumentFields
<1>4. IsTDX(e) \/ IsSEV(e)
  BY <1>1, ModelEvaluators DEF PlatformFactors
<1>5. q.parsed
  <2>1. CASE e.quote = "tdx"
    BY <1>2, <1>4, <2>1 DEF VerifyQuote, VerifyTDXQuote, NoQuote, IsTDX, IsSEV
  <2>2. CASE e.quote = "sev"
    BY <1>2, <1>4, <2>2 DEF VerifyQuote, VerifySEVReport, NoQuote, IsTDX, IsSEV
  <2> QED
    BY <1>4, <2>1, <2>2 DEF IsTDX, IsSEV
<1>6. CASE IsTDX(e)
  <2>1. e.quote = "tdx" /\ (q.tcb # "none" => q.tcb = world.pcs)
    BY <1>2, <1>5, <1>6, QuoteFacts DEF IsTDX, Tiers
  <2>2. CASE n = "tcb_current"
    <3>1. q.tcb = "UpToDate"
      BY <1>1, <1>6, <2>2, ModelEvaluators, CheckPass DEF PlatformFactors, IsTDX, IsSEV
    <3> QED
      BY <2>1, <2>2, <3>1 DEF Promise
  <2>3. CASE n = "tcb_not_revoked"
    <3>1. q.tcb \notin {"none", "Revoked"}
      BY <1>1, <1>6, <2>3, ModelEvaluators, CheckPass DEF PlatformFactors, IsTDX, IsSEV
    <3> QED
      BY <2>1, <2>3, <3>1 DEF Promise
  <2> QED
    BY <2>2, <2>3
<1>7. CASE IsSEV(e)
  <2>1. q.minimumTCB
    BY <1>1, <1>7, ModelEvaluators, CheckPass DEF PlatformFactors, IsTDX, IsSEV
  <2>2. PolicyDecoded("model") => e.minimumTCB
    BY <1>2, <1>5, <1>7, <2>1, QuoteFacts, DecodedPolicy DEF IsSEV, Tiers
  <2> QED
    BY <1>7, <2>2 DEF Promise, IsSEV
<1> QED
  BY <1>4, <1>6, <1>7

LEMMA GPUPromises ==
  ASSUME Inv, pc = "done", ~Blocked(report),
         NEW n \in {"nvidia_nonce_client_bound", "nvidia_signature"}, Required(<<"model", n>>)
  PROVE  Promise(<<"model", n>>)
<1> DEFINE e == ev.model
           g == res.gpu
<1>1. g = VerifyGPUs(e)
  BY Finished
<1>2. Evaluate(<<"model", n>>) = "Pass"
  BY RequiredPasses
<1>3. ASSUME Required(<<"model", "nvidia_nonce_client_bound">>) PROVE e.gpuNonce = "ours"
  <2>1. GPUFactors.nvidia_nonce_client_bound = "Pass"
    BY <1>3, RequiredPasses, ModelEvaluators
  <2>2. g.nonce = "ours"
    BY <2>1, CheckPass DEF GPUFactors
  <2> QED
    BY <1>1, <2>2 DEF VerifyGPUs, NoGPUs
<1>4. CASE n = "nvidia_nonce_client_bound"
  BY <1>3, <1>4 DEF Promise
<1>5. CASE n = "nvidia_signature"
  <2>1. g.ran /\ g.signature
    BY <1>2, <1>5, ModelEvaluators, CheckPass DEF GPUFactors
  <2>2. e.gpusVerify \/ (e.gpus = "eat" /\ e.gpuNonce # "ours")
    BY <1>1, <2>1 DEF VerifyGPUs, NoGPUs
  <2>3. ASSUME e.gpus = "eat", Enforces(<<"model", "nvidia_nonce_client_bound">>) PROVE e.gpuNonce = "ours"
    <3>1. prov \notin Tinfoil
      BY <2>3 DEF Inv, EvidenceInv
    <3>2. <<"model", "nvidia_nonce_client_bound">> \notin Inapplicable(prov)
      BY <3>1 DEF Inapplicable, M
    <3>3. Required(<<"model", "nvidia_nonce_client_bound">>)
      BY <2>3, <3>2 DEF Required, Evaluated, M, ModelNames, Usable
    <3> QED
      BY <1>3, <3>3
  <2> QED
    BY <1>5, <2>2, <2>3 DEF Promise
<1> QED
  BY <1>4, <1>5

LEMMA SupplyChainPromises ==
  ASSUME Inv, pc = "done", ~Blocked(report),
         NEW n \in {"cpu_gpu_chain", "build_transparency_log", "sigstore_code_verified"},
         Required(<<"model", n>>)
  PROVE  Promise(<<"model", n>>)
<1> DEFINE e == ev.model
           q == res.quote["model"]
<1>1. Evaluate(<<"model", n>>) = "Pass"
  BY RequiredPasses
<1>2. q = VerifyQuote("model") /\ IsDocument(ev["model"])
  BY Finished DEF Tiers
<1>3. CASE n = "build_transparency_log"
  <2>1. res.build = "Pass"
    BY <1>1, <1>3, ModelEvaluators DEF SupplyChainFactors
  <2> QED
    BY <1>3, <2>1, Finished DEF Promise
<1>4. CASE n = "cpu_gpu_chain"
  <2>1. res.tinfoil.gpuBound
    BY <1>1, <1>4, ModelEvaluators, CheckPass DEF SupplyChainFactors
  <2>2. prov \in Tinfoil /\ res.tinfoil = TinfoilSupplyChain
    BY <2>1, Finished
  <2>0. TinfoilSupplyChain.gpuBound = (q.parsed /\ q.data = "bound" /\ HasGPU(e))
    BY DEF TinfoilSupplyChain
  <2>3. q.parsed /\ q.data = "bound" /\ HasGPU(e)
    BY <2>0, <2>1, <2>2
  <2>4. e.gpuHash = "match"
    BY <1>2, <2>2, <2>3, QuoteFacts DEF Tiers
  <2> QED
    BY <1>4, <2>2, <2>4 DEF Promise
<1>5. CASE n = "sigstore_code_verified"
  <2>1. res.tinfoil.ran /\ res.tinfoil.code = "match"
    BY <1>1, <1>5, ModelEvaluators, CheckPass DEF SupplyChainFactors
  <2>2. prov \in Tinfoil /\ res.tinfoil = TinfoilSupplyChain
    BY <2>1, Finished
  <2>3. CodeMatches(e, world.release)
    BY <2>1, <2>2 DEF TinfoilSupplyChain
  <2> QED
    BY <1>5, <2>3 DEF Promise
<1> QED
  BY <1>3, <1>4, <1>5

LEMMA MeasurementPromise ==
  ASSUME Inv, pc = "done", ~Blocked(report), NEW t \in Tiers, Required(<<t, "measurement">>)
  PROVE  Promise(<<t, "measurement">>)
<1>1. TEEMeasurement(t) = "Pass"
  BY RequiredPasses, CoreEvaluators
<1>2. CASE prov \in Tinfoil
  <2>1. t = "model"
    <3>1. ev.gateway.quote = "none"
      BY <1>2 DEF Inv, EvidenceInv, Tinfoil
    <3> QED
      BY <3>1 DEF Required, Evaluated, M, G, Tiers
  <2>2. ASSUME Enforces(<<"model", "sigstore_code_verified">>)
        PROVE  CodeMatches(ev["model"], world.release)
    <3>0. /\ <<"model", "sigstore_code_verified">> \in Evaluated
          /\ <<"model", "sigstore_code_verified">> # Usable
      BY DEF Evaluated, M, ModelNames, Usable
    <3> <<"model", "sigstore_code_verified">> \notin Inapplicable(prov)
      BY <1>2 DEF Inapplicable, M, Tinfoil
    <3>1. Required(<<"model", "sigstore_code_verified">>)
      BY <2>2, <3>0 DEF Required
    <3>2. Promise(<<"model", "sigstore_code_verified">>)
      BY <3>1, SupplyChainPromises
    <3> QED
      BY <3>2 DEF Promise
  <2> QED
    BY <1>2, <2>1, <2>2 DEF Promise
<1>3. CASE prov \notin Tinfoil
  <2>1. res.tinfoil.code = "none" /\ ev[t].quote # "sev"
    BY <1>3, Finished DEF Inv, EvidenceInv, Tiers
  <2>2. InAllowlists(t, {"MRTD", "MRSEAM"}) = "Pass"
    BY <1>1, <2>1 DEF TEEMeasurement, IsSEV, IsTDX
  <2> DEFINE pinned == {r \in {"MRTD", "MRSEAM"} : Policy(t, r) # {}}
  <2>3. pinned # {} /\ \A r \in pinned : ev[t][r] \in Policy(t, r)
    BY <2>2, CheckPass DEF InAllowlists
  <2> QED
    BY <1>3, <2>3 DEF Promise
<1> QED
  BY <1>2, <1>3

\* A report that does not block keeps the promise of every factor that the
\* merged allow_fail list enforces: whatever the document and the services are,
\* under every configuration that loads, online and offline, in the proxy and
\* on the command line (fetchAndVerify, attestOnConn, verify.Run, BuildReport).
THEOREM Admission == Spec => []AdmittedIsAttested
<1>1. ASSUME Inv, pc = "done", ~Blocked(report), NEW f \in RelevantFactors \ MergedAllowFail
      PROVE  \/ Promise(f)
             \/ /\ f[1] = "gateway" /\ ev.gateway.quote = "none"
                /\ ~Enforces(<<"model", "build_transparency_log">>)
  <2>1. PICK t \in Tiers, n \in ModelNames : f = <<t, n>> /\ (t = "gateway" => n \in CoreNames)
    BY DEF RelevantFactors, M, G, Tiers, ModelNames
  <2>2. t = "gateway" => prov = "nearcloud"
    BY <2>1 DEF RelevantFactors, M
  <2>3. CASE f \notin Evaluated
    <3>1. t = "gateway" /\ ev.gateway.quote = "none" /\ prov = "nearcloud"
      BY <1>1, <2>1, <2>2, <2>3 DEF Evaluated, M, G, Tiers, Inv, EvidenceInv
    <3>2. ASSUME Enforces(<<"model", "build_transparency_log">>) PROVE FALSE
      <4>1. Required(<<"model", "build_transparency_log">>)
        BY <3>1, <3>2 DEF Required, Evaluated, M, ModelNames, Usable, Inapplicable, Tinfoil
      <4>2. res.build = "Pass"
        BY <1>1, <4>1, RequiredPasses, ModelEvaluators DEF SupplyChainFactors
      <4> QED
        BY <1>1, <3>1, <4>2, Finished DEF IsTDX
    <3> QED
      BY <2>1, <3>1, <3>2
  <2>4. CASE f \in Evaluated /\ f = Usable
    BY <2>4 DEF Promise, Usable
  <2>5. CASE f \in Evaluated /\ f # Usable
    <3>1. Required(<<t, n>>)
      BY <1>1, <2>1, <2>5 DEF Required, Enforces, RelevantFactors, G, M, Inapplicable
    <3>2. CASE n \in {"nonce_match", "cert_chain", "quote_signature", "reportdata_binding",
                      "compose_binding", "event_log_integrity"}
      BY <1>1, <2>1, <3>1, <3>2, QuotePromises
    <3>3. CASE n = "debug_disabled"
      BY <1>1, <2>1, <3>1, <3>3, DebugPromise
    <3>4. CASE n = "measurement"
      BY <1>1, <2>1, <3>1, <3>4, MeasurementPromise
    <3>5. CASE n \in {"tcb_current", "tcb_not_revoked"}
      BY <1>1, <2>1, <3>1, <3>5, TCBPromises DEF CoreNames, Tiers
    <3>6. CASE n \in {"nvidia_nonce_client_bound", "nvidia_signature"}
      BY <1>1, <2>1, <3>1, <3>6, GPUPromises DEF CoreNames, Tiers
    <3>7. CASE n \in {"cpu_gpu_chain", "build_transparency_log", "sigstore_code_verified"}
      BY <1>1, <2>1, <3>1, <3>7, SupplyChainPromises DEF CoreNames, Tiers
    <3>8. CASE n \notin {"nonce_match", "cert_chain", "quote_signature", "reportdata_binding",
                         "compose_binding", "event_log_integrity", "debug_disabled", "measurement",
                         "tcb_current", "tcb_not_revoked", "nvidia_nonce_client_bound", "nvidia_signature",
                         "cpu_gpu_chain", "build_transparency_log", "sigstore_code_verified"}
      BY <2>1, <3>8 DEF Promise
    <3> QED
      BY <3>2, <3>3, <3>4, <3>5, <3>6, <3>7, <3>8
  <2> QED
    BY <2>3, <2>4, <2>5
<1>2. Inv => AdmittedIsAttested
  BY <1>1 DEF AdmittedIsAttested
<1> QED
  BY <1>2, Invariance, PTL

(***************************************************************************)
(* The counters                                                            *)
(***************************************************************************)

LEMMA FourMore ==
  ASSUME NEW S, IsFiniteSet(S), NEW a, NEW b, NEW c, NEW d
  PROVE  IsFiniteSet(S \cup {a, b, c, d})
<1>1. IsFiniteSet(S \cup {a})
  BY FS_AddElement
<1>2. IsFiniteSet((S \cup {a}) \cup {b})
  BY <1>1, FS_AddElement
<1>3. IsFiniteSet(((S \cup {a}) \cup {b}) \cup {c})
  BY <1>2, FS_AddElement
<1>4. IsFiniteSet((((S \cup {a}) \cup {b}) \cup {c}) \cup {d})
  BY <1>3, FS_AddElement
<1>5. S \cup {a, b, c, d} = (((S \cup {a}) \cup {b}) \cup {c}) \cup {d}
  OBVIOUS
<1> QED
  BY <1>4, <1>5

LEMMA FiniteNames == IsFiniteSet(ModelNames) /\ CoreNames \subseteq ModelNames
<1> DEFINE A == {} \cup {"nonce_match", "quote_present", "quote_structure", "cert_chain"}
           B == A \cup {"quote_signature", "debug_disabled", "measurement", "hardware_config"}
           C == B \cup {"boot_config", "reportdata_binding", "compose_binding", "cpu_id_registry"}
           D == C \cup {"event_log_integrity", "signing_key_present", "response_schema", "pcs_collateral"}
           E == D \cup {"tcb_current", "tcb_not_revoked", "nvidia_payload_present", "nvidia_signature"}
           F == E \cup {"nvidia_claims", "nvidia_nonce_client_bound", "nvidia_nras_verified", "e2ee_capable"}
           H == F \cup {"e2ee_usable", "tls_key_binding", "cpu_gpu_chain", "nvswitch_binding"}
           I == H \cup {"measured_model_weights", "build_transparency_log", "sigstore_verification",
                        "sigstore_code_verified"}
<1>1. ModelNames = I
  BY DEF ModelNames, CoreNames
<1> HIDE DEF A, B, C, D, E, F, H, I
<1>2. IsFiniteSet(A) /\ IsFiniteSet(B)
  <2>1. IsFiniteSet(A)
    BY FS_EmptySet, FourMore DEF A
  <2> QED
    BY <2>1, FourMore DEF B
<1>3. IsFiniteSet(C) /\ IsFiniteSet(D)
  <2>1. IsFiniteSet(C)
    BY <1>2, FourMore DEF C
  <2> QED
    BY <2>1, FourMore DEF D
<1>4. IsFiniteSet(E) /\ IsFiniteSet(F)
  <2>1. IsFiniteSet(E)
    BY <1>3, FourMore DEF E
  <2> QED
    BY <2>1, FourMore DEF F
<1>5. IsFiniteSet(H) /\ IsFiniteSet(I)
  <2>1. IsFiniteSet(H)
    BY <1>4, FourMore DEF H
  <2> QED
    BY <2>1, FourMore DEF I
<1>6. CoreNames \subseteq ModelNames
  BY DEF ModelNames
<1> QED
  BY <1>1, <1>5, <1>6

LEMMA FiniteEvaluated == IsFiniteSet(Evaluated)
<1>1. IsFiniteSet({"model"} \cup {"gateway"})
  <2>1. IsFiniteSet({"model"})
    BY FS_Singleton
  <2> QED
    BY <2>1, FS_AddElement
<1>2. IsFiniteSet(({"model"} \cup {"gateway"}) \X ModelNames)
  BY <1>1, FiniteNames, FS_Product
<1>3. Evaluated \subseteq ({"model"} \cup {"gateway"}) \X ModelNames
  BY FiniteNames DEF Evaluated, M, G
<1> QED
  BY <1>2, <1>3, FS_Subset

LEMMA DisjointUnion ==
  ASSUME NEW S, NEW T, IsFiniteSet(S), IsFiniteSet(T), S \cap T = {}
  PROVE  /\ IsFiniteSet(S \cup T) /\ Cardinality(S) \in Nat /\ Cardinality(T) \in Nat
         /\ Cardinality(S \cup T) = Cardinality(S) + Cardinality(T)
<1>1. Cardinality(S \cap T) = 0
  BY FS_EmptySet
<1>2. Cardinality(S) \in Nat /\ Cardinality(T) \in Nat
  BY FS_CardinalityType
<1>3. /\ IsFiniteSet(S \cup T)
      /\ Cardinality(S \cup T) = Cardinality(S) + Cardinality(T) - Cardinality(S \cap T)
  BY FS_Union, Zenon
<1> DEFINE u == Cardinality(S \cup T)
           m == Cardinality(S \cap T)
           a == Cardinality(S)
           b == Cardinality(T)
<1>4. u = a + b - m /\ m = 0 /\ a \in Nat /\ b \in Nat
  BY <1>1, <1>2, <1>3
<1>5. u = a + b
  <2> HIDE DEF u, m, a, b
  <2> QED
    BY <1>4
<1> QED
  BY <1>2, <1>3, <1>5

\* recomputeCounters: the statuses partition the factors, and the enforced and
\* the allowed failures partition the failures.
LEMMA CountersAgree ==
  ASSUME NEW D, IsFiniteSet(D), NEW status \in [D -> Statuses], NEW enforced
  PROVE  LET c == Counters(status, enforced)
         IN  /\ c.passed + c.failed + c.skipped + c.notApplicable = Cardinality(D)
             /\ c.enforcedFailed + c.allowedFailed = c.failed
             /\ (c.enforcedFailed > 0) <=> \E f \in D : status[f] = "Fail" /\ f \in enforced
<1> DEFINE with(s) == {f \in D : status[f] = s}
           P == with("Pass")
           F == with("Fail")
           S == with("Skip")
           N == with("NotApplicable")
           Of == F \cap enforced
           Off == F \ enforced
           c == Counters(status, enforced)
<1>1. /\ c.passed = Cardinality(P) /\ c.failed = Cardinality(F) /\ c.skipped = Cardinality(S)
      /\ c.notApplicable = Cardinality(N) /\ c.enforcedFailed = Cardinality(Of)
      /\ c.allowedFailed = Cardinality(Off)
  BY DEF Counters
<1>2. D = ((P \cup F) \cup S) \cup N
  BY DEF Statuses
<1>3. P \cap F = {} /\ (P \cup F) \cap S = {} /\ ((P \cup F) \cup S) \cap N = {}
  OBVIOUS
<1>4. F = Of \cup Off /\ Of \cap Off = {}
  OBVIOUS
<1>5. Of = {} <=> ~ \E f \in D : status[f] = "Fail" /\ f \in enforced
  OBVIOUS
<1>6. P \subseteq D /\ F \subseteq D /\ S \subseteq D /\ N \subseteq D /\ Of \subseteq D /\ Off \subseteq D
  OBVIOUS
<1> HIDE DEF P, F, S, N, Of, Off, c
<1>7. /\ IsFiniteSet(P) /\ IsFiniteSet(F) /\ IsFiniteSet(S) /\ IsFiniteSet(N)
      /\ IsFiniteSet(Of) /\ IsFiniteSet(Off)
  BY <1>6, FS_Subset
<1>8. /\ IsFiniteSet(P \cup F) /\ Cardinality(P) \in Nat /\ Cardinality(F) \in Nat
      /\ Cardinality(P \cup F) = Cardinality(P) + Cardinality(F)
  BY <1>3, <1>7, DisjointUnion
<1>9. /\ IsFiniteSet((P \cup F) \cup S) /\ Cardinality(S) \in Nat
      /\ Cardinality((P \cup F) \cup S) = Cardinality(P \cup F) + Cardinality(S)
  BY <1>3, <1>7, <1>8, DisjointUnion
<1>10. /\ Cardinality(N) \in Nat
       /\ Cardinality(((P \cup F) \cup S) \cup N) = Cardinality((P \cup F) \cup S) + Cardinality(N)
  BY <1>3, <1>7, <1>9, DisjointUnion
<1>11. /\ Cardinality(Of) \in Nat /\ Cardinality(Off) \in Nat
       /\ Cardinality(Of \cup Off) = Cardinality(Of) + Cardinality(Off)
  BY <1>4, <1>7, DisjointUnion
<1>12. Cardinality(Of) > 0 <=> \E f \in D : status[f] = "Fail" /\ f \in enforced
  <2>1. Cardinality(Of) = 0 <=> Of = {}
    BY <1>7, FS_EmptySet
  <2>2. Cardinality(Of) > 0 <=> Of # {}
    BY <1>11, <2>1
  <2> QED
    BY <1>5, <2>2
<1>13. c.passed + c.failed + c.skipped + c.notApplicable = Cardinality(D)
  <2> DEFINE k == Cardinality(((P \cup F) \cup S) \cup N)
  <2>1. Cardinality(D) = k
    BY <1>2
  <2> QED
    BY <1>1, <1>8, <1>9, <1>10, <2>1
<1>14. c.enforcedFailed + c.allowedFailed = c.failed
  <2>1. Cardinality(F) = Cardinality(Of \cup Off)
    BY <1>4
  <2> QED
    BY <1>1, <1>11, <2>1
<1>15. (c.enforcedFailed > 0) <=> \E f \in D : status[f] = "Fail" /\ f \in enforced
  BY <1>1, <1>12
<1> QED
  BY <1>13, <1>14, <1>15 DEF c

\* Every report has a status for exactly the factors it must cover and counters
\* that agree with them, whoever marks it last (recomputeCounters after
\* BuildReport, MarkE2EEUsable and MarkE2EEFailed).
THEOREM TypeCorrect == Spec => []TypeOK
<1>1. ASSUME Inv PROVE TypeOK
  <2>1. /\ pc \in {"load", "fetch", "quotes", "gpus", "poc", "supply", "tinfoil", "live",
                   "report", "done", "refused"}
        /\ prov \in Providers /\ offline \in BOOLEAN /\ budget \in 0..MaxDeviations
    BY <1>1 DEF Inv, Stages
  <2>2. \A t \in Tiers : \A f \in DOMAIN EvidenceValues : ev[t][f] \in EvidenceValues[f]
    BY <1>1 DEF Inv, EvidenceInv, IsDocument
  <2>3. ASSUME pc = "done"
        PROVE  LET c == report.counters
               IN  /\ report.status \in [Evaluated -> Statuses]
                   /\ c.passed + c.failed + c.skipped + c.notApplicable = Cardinality(Evaluated)
                   /\ c.enforcedFailed + c.allowedFailed = c.failed
                   /\ (c.enforcedFailed > 0) <=> Blocked(report)
    <3>1. /\ report.status \in [Evaluated -> Statuses]
          /\ report.counters = Counters(report.status, report.enforced)
      BY <1>1, <2>3 DEF Inv, ReportInv
    <3>2. Blocked(report) <=> \E f \in Evaluated : report.status[f] = "Fail" /\ f \in report.enforced
      BY <3>1 DEF Blocked
    <3> DEFINE c == Counters(report.status, report.enforced)
    <3>3. /\ c.passed + c.failed + c.skipped + c.notApplicable = Cardinality(Evaluated)
          /\ c.enforcedFailed + c.allowedFailed = c.failed
          /\ (c.enforcedFailed > 0) <=> \E f \in Evaluated : report.status[f] = "Fail" /\ f \in report.enforced
      BY <3>1, FiniteEvaluated, CountersAgree
    <3> HIDE DEF c
    <3> QED
      BY <3>1, <3>2, <3>3 DEF c
  <2> QED
    BY <2>1, <2>2, <2>3 DEF TypeOK
<1> QED
  BY <1>1, Invariance, PTL

(***************************************************************************)
(* Honest providers                                                        *)
(***************************************************************************)

\* What the documents of honest providers have in common.
Sound(e) ==
  /\ e.quote \in {"tdx", "sev"} /\ e.parses = TRUE /\ e.genuine = TRUE /\ e.debug = FALSE
  /\ e.guestPolicy = "valid" /\ e.minimumTCB = TRUE /\ e.tdFields = TRUE
  /\ e.MRTD = "known" /\ e.MRSEAM = "known" /\ e.RTMR0 = "known" /\ e.RTMR1 = "known" /\ e.RTMR2 = "known"
  /\ e.nonce = "ours" /\ e.key = "valid" /\ e.dataKey = TRUE /\ e.dataNonce = TRUE /\ e.dataTail = TRUE
  /\ e.gpus \in {"eat", "list"} /\ e.gpuNonce = "ours" /\ e.gpusVerify = TRUE /\ e.nvswitchHash = TRUE
  /\ e.schema = TRUE /\ e.topology # "unknown8"

LEMMA SoundDstack ==
  /\ Sound(Dstack) /\ Dstack.quote = "tdx" /\ Dstack.address = "match" /\ Dstack.fingerprint = "present"
  /\ Dstack.format = "dstack" /\ Dstack.compose = "bound" /\ Dstack.events = "match"
BY DEF Sound, Dstack

LEMMA SoundSek8s == Sound(Sek8s) /\ Sek8s.quote = "tdx"
BY DEF Sound, Dstack, Sek8s

LEMMA SoundTinfoil ==
  \A e \in {TinfoilTD, TinfoilGuest} :
    /\ Sound(e) /\ e.RTMR3 = "zero" /\ e.gpuHash = "match" /\ e.fingerprint = "present" /\ e.topology = "hopper8"
<1>1. /\ Sound(TinfoilTD) /\ TinfoilTD.RTMR3 = "zero" /\ TinfoilTD.gpuHash = "match"
      /\ TinfoilTD.fingerprint = "present" /\ TinfoilTD.topology = "hopper8"
  BY DEF Sound, Dstack, TinfoilTD
<1>2. /\ Sound(TinfoilGuest) /\ TinfoilGuest.RTMR3 = "zero" /\ TinfoilGuest.gpuHash = "match"
      /\ TinfoilGuest.fingerprint = "present" /\ TinfoilGuest.topology = "hopper8"
  BY DEF Sound, Dstack, TinfoilTD, TinfoilGuest
<1> QED
  BY <1>1, <1>2

\* The document of each provider, while nothing was off.
LEMMA NominalDocument ==
  ASSUME NEW e \in Nominal(prov)
  PROVE  /\ Sound(e)
         /\ prov \in Tinfoil => /\ e.RTMR3 = "zero" /\ e.gpuHash = "match" /\ e.fingerprint = "present"
                                /\ e.topology = "hopper8"
         /\ prov \notin Tinfoil => e.quote = "tdx"
         /\ prov \notin Tinfoil \cup {"chutes"} => e = Dstack
<1>1. CASE prov = "chutes"
  BY <1>1, SoundSek8s DEF Nominal, Tinfoil
<1>2. CASE prov \in Tinfoil
  BY <1>2, SoundTinfoil DEF Nominal, Tinfoil
<1>3. CASE prov \notin Tinfoil \cup {"chutes"}
  BY <1>3, SoundDstack DEF Nominal
<1> QED
  BY <1>1, <1>2, <1>3

LEMMA InitHonest ==
  ASSUME Init
  PROVE  HonestInv
<1>1. PICK e \in Nominal(prov) :
        ev = [model |-> e,
              gateway |-> IF prov = "nearcloud" THEN Dstack ELSE [Dstack EXCEPT !.quote = "none"]]
  BY DEF Init
<1>2. ev.model \in Nominal(prov) /\ (prov = "nearcloud" => ev.gateway = Dstack)
  BY <1>1
<1>3. res.tinfoil.policy = "none" /\ res.tinfoil.hardware = "none"
  BY DEF Init
<1> QED
  BY <1>2, <1>3 DEF Init, HonestInv, Stages

\* A stage that leaves the inputs and the results in question alone.
LEMMA SameHonest ==
  ASSUME HonestInv, Inv, UNCHANGED <<mode, prov, offline, conf, budget, ev, world>>,
         res'.nras = res.nras \/ pc' \notin Stages \ {"quotes", "gpus"},
         (res'.compose = res.compose /\ res'.build = res.build /\ res'.sigstore = res.sigstore)
           \/ pc' \notin {"tinfoil", "live", "report", "done"},
         pc' \in Stages \ {"quotes", "gpus"} /\ res'.nras = res.nras => pc \in Stages \ {"quotes", "gpus"},
         pc' \in {"tinfoil", "live", "report", "done"} => pc \in {"tinfoil", "live", "report", "done"},
         prov \notin Tinfoil => res'.tinfoil = res.tinfoil
  PROVE  HonestInv'
BY DEF HonestInv, HasSupplyChainPolicy, IsTDX

LEMMA LoadHonest ==
  ASSUME Inv, HonestInv, Load
  PROVE  HonestInv'
<1>1. budget \in 0 .. MaxDeviations
  BY DEF Inv
<1>2. /\ pc' \in {"fetch", "refused"}
      /\ budget' = MaxDeviations => budget = MaxDeviations /\ conf' = DefaultConfig
      /\ UNCHANGED <<mode, prov, offline, ev, world, res, report>>
  BY <1>1, DeviationsAssumption DEF Load
<1> QED
  BY <1>2 DEF HonestInv, Stages

LEMMA DeviateHonest ==
  ASSUME Inv, Deviate
  PROVE  HonestInv'
<1>1. budget \in 0 .. MaxDeviations /\ budget' = budget - 1
  BY DEF Inv, Deviate
<1>2. budget' # MaxDeviations
  BY <1>1, DeviationsAssumption
<1> QED
  BY <1>2 DEF HonestInv

LEMMA NVIDIAHonest ==
  ASSUME Inv, HonestInv, VerifyNVIDIA
  PROVE  HonestInv'
<1>1. /\ pc' = "poc" /\ UNCHANGED <<mode, prov, offline, conf, budget, ev, world>>
      /\ res' = [res EXCEPT !.gpu = VerifyGPUs(ev.model),
                            !.nras = IF offline \/ ~SentToNRAS(ev.model)
                                        \/ (mode = "cli" /\ ev.model.gpus = "list" /\ ev.model.gpuNonce = "malformed")
                                     THEN "none" ELSE world.nras]
  BY DEF VerifyNVIDIA
<1>2. res'.tinfoil = res.tinfoil
  BY <1>1 DEF Inv, ResultsInv
<1>3. ASSUME budget = MaxDeviations PROVE offline \/ res'.nras = "true"
  <2>1. Sound(ev.model) /\ world.nras = "true"
    BY <1>3, NominalDocument DEF HonestInv, AllWell
  <2>2. SentToNRAS(ev.model) /\ ev.model.gpuNonce # "malformed"
    BY <2>1 DEF Sound, SentToNRAS
  <2>3. "nras" \in DOMAIN res
    BY DEF Inv, ResultsInv
  <2> QED
    BY <1>1, <2>1, <2>2, <2>3
<1> QED
  BY <1>1, <1>2, <1>3 DEF HonestInv

LEMMA SupplyHonest ==
  ASSUME Inv, HonestInv, VerifySupplyChain
  PROVE  HonestInv'
<1> DEFINE compose == [t \in Tiers |->
                         CASE ev[t].compose = "absent" \/ ~IsTDX(ev[t]) -> "none"
                           [] OTHER -> ev[t].compose]
           repos(t) == compose[t] = "bound"
           listed == repos("model") /\ (prov = "nearcloud" => repos("gateway"))
           asked == ~offline /\ (repos("model") \/ repos("gateway"))
           vouched == world.images = "vouched"
           sigstore == CASE ~asked -> "Skip" [] OTHER -> IF vouched THEN "Pass" ELSE "Fail"
           build == CASE HasSupplyChainPolicy -> IF listed /\ asked /\ vouched THEN "Pass" ELSE "Fail"
                      [] ~HasSupplyChainPolicy /\ asked -> IF vouched THEN "Pass" ELSE "Fail"
                      [] OTHER -> IF ev.model.compose = "absent" THEN "Fail" ELSE "Skip"
<1>1. /\ pc = "supply" /\ pc' = "tinfoil"
      /\ res' = [res EXCEPT !.compose = compose, !.sigstore = sigstore, !.build = build]
      /\ UNCHANGED <<mode, prov, offline, conf, budget, ev, world>>
  BY DEF VerifySupplyChain
<1>2. \A t \in Tiers : ev[t].compose = "bound" /\ IsTDX(ev[t]) => compose[t] = "bound"
  OBVIOUS
<1>3. ASSUME budget = MaxDeviations, HasSupplyChainPolicy, ~offline
      PROVE  build = "Pass" /\ sigstore = "Pass"
  <2>1. ev.model = Dstack /\ vouched /\ (prov = "nearcloud" => ev.gateway = Dstack)
    BY <1>3, NominalDocument DEF HonestInv, AllWell, HasSupplyChainPolicy, Tinfoil
  <2>2. Dstack.compose = "bound" /\ IsTDX(Dstack)
    BY SoundDstack DEF Sound, IsTDX
  <2>3. repos("model") /\ (prov = "nearcloud" => repos("gateway"))
    BY <1>2, <2>1, <2>2 DEF Tiers
  <2> HIDE DEF compose
  <2> QED
    BY <1>3, <2>1, <2>3
<1> HIDE DEF compose, sigstore, build
<1>4. /\ res'.compose = compose /\ res'.sigstore = sigstore /\ res'.build = build
      /\ res'.nras = res.nras /\ res'.tinfoil = res.tinfoil
  BY <1>1 DEF Inv, ResultsInv
<1>5. IsTDX(ev["model"])' = IsTDX(ev["model"]) /\ IsTDX(ev["gateway"])' = IsTDX(ev["gateway"])
      /\ HasSupplyChainPolicy' = HasSupplyChainPolicy
  BY <1>1 DEF IsTDX, HasSupplyChainPolicy
<1>6. ASSUME budget = MaxDeviations PROVE offline \/ res.nras = "true"
  BY <1>1, <1>6 DEF HonestInv, Stages
<1> QED
  BY <1>1, <1>2, <1>3, <1>4, <1>5, <1>6 DEF HonestInv, Tiers

LEMMA HonestInvariance == Spec => []HonestInv
<1>1. ASSUME Inv, HonestInv, [Next]_vars PROVE HonestInv'
  <2> SUFFICES ASSUME ~Load, ~Deviate, ~VerifyNVIDIA, ~VerifySupplyChain PROVE HonestInv'
    BY <1>1, LoadHonest, DeviateHonest, NVIDIAHonest, SupplyHonest
  <2>1. CASE Fetch
    BY <1>1, <2>1, SameHonest DEF Fetch, Stages
  <2>2. CASE VerifyQuotes
    <3>1. res'.tinfoil = res.tinfoil
      BY <1>1, <2>2 DEF VerifyQuotes, Inv, ResultsInv
    <3> QED
      BY <1>1, <2>2, <3>1, SameHonest DEF VerifyQuotes, Stages
  <2>3. CASE VerifyPoC
    <3>1. res'.tinfoil = res.tinfoil /\ res'.nras = res.nras
      BY <1>1, <2>3 DEF VerifyPoC, Inv, ResultsInv
    <3> QED
      BY <1>1, <2>3, <3>1, SameHonest DEF VerifyPoC, Stages
  <2>4. CASE VerifyTinfoilSupplyChain
    <3>1. /\ prov \notin Tinfoil => res'.tinfoil = res.tinfoil
          /\ res'.nras = res.nras /\ res'.compose = res.compose /\ res'.build = res.build
          /\ res'.sigstore = res.sigstore
      BY <1>1, <2>4 DEF VerifyTinfoilSupplyChain, Inv, ResultsInv
    <3> QED
      BY <1>1, <2>4, <3>1, SameHonest DEF VerifyTinfoilSupplyChain, Stages
  <2>5. CASE LiveTest
    <3>1. /\ res'.tinfoil = res.tinfoil
          /\ res'.nras = res.nras /\ res'.compose = res.compose /\ res'.build = res.build
          /\ res'.sigstore = res.sigstore
      BY <1>1, <2>5 DEF LiveTest, Inv, ResultsInv
    <3> QED
      BY <1>1, <2>5, <3>1, SameHonest DEF LiveTest, Stages
  <2>6. CASE MakeReport
    BY <1>1, <2>6, SameHonest DEF MakeReport, Stages
  <2>7. CASE MarkE2EEUsable \/ MarkE2EEFailed
    <3>1. UNCHANGED <<pc, mode, prov, offline, conf, budget, ev, world, res>>
      BY <2>7 DEF MarkE2EEUsable, MarkE2EEFailed
    <3> QED
      BY <1>1, <3>1, SameHonest
  <2>8. CASE UNCHANGED vars
    <3>1. UNCHANGED <<pc, mode, prov, offline, conf, budget, ev, world, res>>
      BY <2>8 DEF vars
    <3> QED
      BY <1>1, <3>1, SameHonest
  <2> QED
    BY <1>1, <2>1, <2>2, <2>3, <2>4, <2>5, <2>6, <2>7, <2>8 DEF Next
<1> QED
  BY <1>1, InitHonest, Invariance, PTL DEF Spec

\* What an honest run of the default policy starts from.
Honest ==
  /\ Inv /\ HonestInv /\ pc = "done" /\ budget = MaxDeviations /\ prov # "phalacloud"
  /\ ~(offline /\ prov \in Tinfoil /\ (mode = "cli" \/ ev.model.quote = "sev"))

Present(t) == t = "model" \/ (t = "gateway" /\ prov = "nearcloud")

LEMMA HonestState ==
  ASSUME Honest
  PROVE  /\ conf = DefaultConfig /\ world = AllWell /\ Sound(ev["model"])
         /\ prov \notin Tinfoil => ev["model"].quote = "tdx"
         /\ prov \notin Tinfoil \cup {"chutes"} => ev["model"] = Dstack
         /\ prov = "nearcloud" => ev["gateway"] = Dstack
         /\ prov \in Tinfoil => /\ ev["model"].RTMR3 = "zero" /\ ev["model"].gpuHash = "match"
                                /\ ev["model"].fingerprint = "present" /\ ev["model"].topology = "hopper8"
BY NominalDocument DEF Honest, HonestInv

\* The default policy of every provider but Phala Cloud.
LEMMA DefaultPolicy ==
  ASSUME Honest
  PROVE  /\ M({"cpu_id_registry"}) \subseteq MergedAllowFail
         /\ prov \notin Tinfoil => M(OftenMissing \cup Platform) \subseteq MergedAllowFail
         /\ prov \in Tinfoil => M({"pcs_collateral", "nvswitch_binding"}) \subseteq MergedAllowFail
         /\ prov = "chutes" => M({"tls_key_binding"}) \subseteq MergedAllowFail
         /\ prov = "nearcloud" => G(Platform \cup {"cpu_id_registry"}) \subseteq MergedAllowFail
         /\ offline => OnlineFactors \subseteq MergedAllowFail
<1>1. conf.provider = {} /\ conf.top = {} /\ conf.section = {}
  BY HonestState DEF DefaultConfig
<1>2. MergedAllowFail = IF offline THEN ProviderDefaultAllowFail(prov) \cup OnlineFactors
                        ELSE ProviderDefaultAllowFail(prov)
  BY <1>1 DEF MergedAllowFail, GlobalAllowFail, WithOfflineAllowFail
<1>3. ProviderDefaultAllowFail(prov) \subseteq MergedAllowFail /\ (offline => OnlineFactors \subseteq MergedAllowFail)
  BY <1>2
<1> DEFINE default == ProviderDefaultAllowFail(prov)
<1>4. CASE prov = "tinfoil_v3_cloud"
  <2>1. default = M({"cpu_id_registry", "pcs_collateral", "cert_chain", "quote_signature",
                     "nvidia_payload_present", "nvidia_signature", "nvidia_claims",
                     "cpu_gpu_chain", "nvswitch_binding"})
    BY <1>4 DEF ProviderDefaultAllowFail
  <2> QED
    BY <1>3, <1>4, <2>1 DEF M, Tinfoil
<1>5. CASE prov = "tinfoil_v3_direct"
  <2>1. default = M({"cpu_id_registry", "pcs_collateral", "nvswitch_binding"})
    BY <1>5 DEF ProviderDefaultAllowFail
  <2> QED
    BY <1>3, <1>5, <2>1 DEF M, Tinfoil
<1>6. CASE prov = "chutes"
  <2>1. default = M(OftenMissing \cup Platform
                    \cup {"nvidia_signature", "nvidia_nras_verified", "tls_key_binding"})
    BY <1>6 DEF ProviderDefaultAllowFail
  <2> QED
    BY <1>3, <1>6, <2>1 DEF M, Tinfoil, OftenMissing
<1>7. CASE prov = "nearcloud"
  <2>1. default = M(OftenMissing \cup Platform)
                  \cup G(Platform \cup {"reportdata_binding", "cpu_id_registry"})
    BY <1>7 DEF ProviderDefaultAllowFail
  <2> QED
    BY <1>3, <1>7, <2>1 DEF M, G, Tinfoil, OftenMissing
<1>8. CASE prov \notin Tinfoil \cup {"chutes", "nearcloud"}
  <2>1. M(OftenMissing \cup Platform) \subseteq default
    BY <1>8 DEF ProviderDefaultAllowFail, M, Tinfoil
  <2> QED
    BY <1>3, <1>8, <2>1 DEF M, OftenMissing
<1> QED
  BY <1>4, <1>5, <1>6, <1>7, <1>8 DEF Tinfoil

LEMMA DefaultMeasurements ==
  ASSUME Honest, NEW t, Present(t), NEW r,
         r = "MRSEAM" \/ prov \notin Tinfoil
  PROVE  Policy(t, r) = {"known"}
<1>1. conf.pins = {}
  BY HonestState DEF DefaultConfig
<1>2. Policy(t, r) = MeasurementDefaults(t, r)
  BY <1>1 DEF Policy
<1>3. MeasurementDefaults(t, r) = {"known"}
  BY DEF MeasurementDefaults, Honest, Present, Tinfoil
<1> QED
  BY <1>2, <1>3

\* The document that is there is sound, its quote verifies and binds the key.
LEMMA HonestQuote ==
  ASSUME Honest, NEW t, Present(t)
  PROVE  /\ t \in Tiers /\ Sound(ev[t]) /\ (t = "gateway" => ev[t].quote = "tdx")
         /\ res.quote[t].parsed = TRUE /\ res.quote[t].chain = TRUE /\ res.quote[t].debug = FALSE
         /\ res.quote[t].data = "bound"
         /\ ev[t].quote = "tdx" => res.quote[t].tcb = IF offline THEN "none" ELSE "UpToDate"
         /\ ev[t].quote = "sev" => /\ res.quote[t].policy = TRUE /\ res.quote[t].minimumTCB = TRUE
                                   /\ res.quote[t].online = TRUE
<1> DEFINE e == ev[t]
           data == CASE t = "model" -> ReportDataBinding(prov, ByFormat, ev[t])
                     [] OTHER -> IF GatewayBinding(ev[t]) THEN "bound" ELSE "refused"
<1>1. /\ t \in Tiers /\ Sound(e) /\ world.pcs = "UpToDate" /\ world.kds = TRUE
      /\ t = "gateway" => e = Dstack /\ e.quote = "tdx"
  BY HonestState, SoundDstack DEF Present, Tiers, AllWell
<1>2. data = "bound"
  <2>1. CASE t = "gateway"
    BY <1>1, <2>1, SoundDstack DEF GatewayBinding, Sound
  <2>2. ASSUME t = "model", prov \notin Tinfoil \cup {"chutes"} PROVE ReportDataBinding(prov, ByFormat, e) = "bound"
    <3>1. e = Dstack /\ e.format = "dstack" /\ e.address = "match" /\ e.fingerprint = "present"
      BY <2>2, HonestState, SoundDstack
    <3>2. VeniceBinding(e) /\ NearBinding(e)
      BY <1>1, <3>1 DEF VeniceBinding, NearBinding, Sound
    <3>3. prov \in {"venice", "neardirect", "nearcloud", "nanogpt"}
      BY <2>2, ProvidersAssumption DEF Honest, Inv, AllProviders, Tinfoil
    <3> QED
      BY <3>1, <3>2, <3>3 DEF ReportDataBinding
  <2>3. ASSUME t = "model", prov = "chutes" PROVE ReportDataBinding(prov, ByFormat, e) = "bound"
    <3>1. ChutesBinding(e) /\ ~ByFormat
      BY <1>1, <2>3 DEF ChutesBinding, Sound, ByFormat
    <3> QED
      BY <2>3, <3>1 DEF ReportDataBinding
  <2>4. ASSUME t = "model", prov \in Tinfoil PROVE ReportDataBinding(prov, ByFormat, e) = "bound"
    <3>1. TinfoilBinding(e) /\ ~ByFormat
      BY <1>1, <2>4, HonestState DEF TinfoilBinding, Sound, ByFormat, Tinfoil
    <3> QED
      BY <2>4, <3>1 DEF ReportDataBinding, Tinfoil
  <2> QED
    BY <1>1, <2>1, <2>2, <2>3, <2>4 DEF Tiers
<1>3. /\ res.quote[t] = CASE e.quote = "tdx" -> VerifyTDXQuote(e, data, offline, world.pcs)
                          [] e.quote = "sev" -> VerifySEVReport(e, data, offline, world.kds)
                          [] OTHER -> NoQuote
  BY <1>1, Finished DEF VerifyQuote, Honest
<1> HIDE DEF data
<1>4. ASSUME e.quote = "tdx"
      PROVE  /\ res.quote[t].parsed = TRUE /\ res.quote[t].chain = TRUE /\ res.quote[t].debug = FALSE
             /\ res.quote[t].data = data /\ res.quote[t].tcb = IF offline THEN "none" ELSE "UpToDate"
  <2>1. res.quote[t] = VerifyTDXQuote(e, data, offline, world.pcs)
    BY <1>3, <1>4
  <2> QED
    BY <1>1, <2>1 DEF VerifyTDXQuote, NoQuote, Sound
<1>5. ASSUME e.quote = "sev"
      PROVE  /\ res.quote[t].parsed = TRUE /\ res.quote[t].chain = TRUE /\ res.quote[t].debug = FALSE
             /\ res.quote[t].data = data /\ res.quote[t].policy = TRUE /\ res.quote[t].minimumTCB = TRUE
             /\ res.quote[t].online = TRUE
  <2>1. res.quote[t] = VerifySEVReport(e, data, offline, world.kds)
    BY <1>3, <1>5
  <2>2. ~offline
    BY <1>1, <1>5, HonestState DEF Honest, Tiers
  <2> QED
    BY <1>1, <2>1, <2>2 DEF VerifySEVReport, NoQuote, Sound
<1> QED
  BY <1>1, <1>2, <1>4, <1>5 DEF Sound

\* Tinfoil's supply chain checks all succeed.
LEMMA HonestTinfoil ==
  ASSUME Honest, prov \in Tinfoil
  PROVE  /\ res.tinfoil.ran = TRUE /\ res.tinfoil.gpuBound = TRUE /\ res.tinfoil.sigstore = "verified"
         /\ res.tinfoil.code = "match"
         /\ IsTDX(ev["model"]) => res.tinfoil.policy = "ok" /\ res.tinfoil.hardware = "match"
         /\ ~IsTDX(ev["model"]) => res.tinfoil.policy = "none" /\ res.tinfoil.hardware = "none"
<1> DEFINE e == ev["model"]
           q == res.quote["model"]
<1>1. /\ Sound(e) /\ e.RTMR3 = "zero" /\ e.gpuHash = "match"
      /\ world.bundle = "verified" /\ world.release = "known" /\ world.hardware = TRUE
  BY HonestState DEF AllWell
<1>2. q.parsed = TRUE /\ q.data = "bound"
  BY HonestQuote DEF Present
<1>3. HasGPU(e) /\ CodeMatches(e, world.release) /\ HardwareMatches(e)
  BY <1>1 DEF HasGPU, CodeMatches, HardwareMatches, Sound, IsTDX, IsSEV
<1>4. ~(mode = "cli" /\ offline)
  BY DEF Honest
<1>5. TDXPolicyHolds(e, Policy("model", "MRSEAM"))
  <2>1. Policy("model", "MRSEAM") = {"known"}
    BY DefaultMeasurements DEF Present
  <2> QED
    BY <1>1, <2>1 DEF TDXPolicyHolds, Sound
<1>6. res.tinfoil = TinfoilSupplyChain
  BY Finished DEF Honest
<1>7. /\ TinfoilSupplyChain.ran = TRUE /\ TinfoilSupplyChain.gpuBound = (q.parsed /\ q.data = "bound" /\ HasGPU(e))
      /\ TinfoilSupplyChain.sigstore = "verified" /\ TinfoilSupplyChain.code = "match"
  BY <1>1, <1>3, <1>4 DEF TinfoilSupplyChain
<1>8. /\ IsTDX(e) => TinfoilSupplyChain.policy = "ok" /\ TinfoilSupplyChain.hardware = "match"
      /\ ~IsTDX(e) => TinfoilSupplyChain.policy = "none" /\ TinfoilSupplyChain.hardware = "none"
  BY <1>1, <1>3, <1>4, <1>5 DEF TinfoilSupplyChain
<1> QED
  BY <1>2, <1>3, <1>6, <1>7, <1>8

LEMMA CheckTrue == \A b : b => Check(b) = "Pass"
BY DEF Check

\* The evaluators both tiers have, for an honest provider.
LEMMA HonestCore ==
  ASSUME Honest, NEW t, Present(t), NEW n \in CoreNames, <<t, n>> \notin MergedAllowFail,
         <<t, n>> \notin Inapplicable(prov)
  PROVE  Evaluate(<<t, n>>) = "Pass"
<1> DEFINE e == ev[t]
           q == res.quote[t]
<1>1. /\ t \in Tiers /\ Sound(e) /\ (t = "gateway" => e.quote = "tdx")
      /\ q.parsed = TRUE /\ q.chain = TRUE /\ q.debug = FALSE /\ q.data = "bound"
      /\ e.quote = "sev" => q.policy = TRUE /\ q.online = TRUE
  BY HonestQuote
<1>2. IsTDX(e) = (e.quote = "tdx") /\ IsSEV(e) = (e.quote = "sev") /\ e.quote \in {"tdx", "sev"}
  BY <1>1 DEF Sound, IsTDX, IsSEV
<1>3. Evaluate(<<t, n>>) = CoreFactors(t)[n]
  BY CoreEvaluate
<1>4. n \notin {"cpu_id_registry"} /\ (prov \notin Tinfoil => n \notin Platform)
  BY <1>1, DefaultPolicy DEF M, G, Present, Platform, OftenMissing
<1>5. CASE n \in {"nonce_match", "quote_present", "quote_structure", "reportdata_binding"}
  <2>1. /\ CoreFactors(t).nonce_match = Check(e.nonce = "ours")
        /\ CoreFactors(t).quote_present = Check(e.quote # "none")
        /\ CoreFactors(t).quote_structure = Check(q.parsed)
        /\ CoreFactors(t).reportdata_binding = Check(q.parsed /\ q.data = "bound" /\ (t = "model" => e.key # "absent"))
    BY DEF CoreFactors
  <2>2. e.nonce = "ours" /\ e.quote # "none" /\ e.key # "absent"
    BY <1>1 DEF Sound
  <2> QED
    BY <1>1, <1>3, <1>5, <2>1, <2>2 DEF Check
<1>6. CASE n \in {"cert_chain", "quote_signature"}
  <2>1. CertChain(t) = "Pass"
    BY <1>1, <1>2 DEF CertChain, Check
  <2> QED
    BY <1>6, <2>1, CoreEvaluators
<1>7. CASE n = "debug_disabled"
  <2>1. DebugDisabled(t) = "Pass"
    BY <1>1, <1>2 DEF DebugDisabled, Check
  <2> QED
    BY <1>7, <2>1, CoreEvaluators
<1>8. CASE n = "measurement"
  <2>1. TEEMeasurement(t) = "Pass"
    <3>1. CASE prov \in Tinfoil
      <4>1. t = "model" /\ res.tinfoil.code = "match"
        BY <3>1, HonestTinfoil DEF Present, Tinfoil
      <4> QED
        BY <4>1 DEF TEEMeasurement
    <3>2. CASE prov \notin Tinfoil
      <4>1. res.tinfoil.code = "none" /\ e.quote = "tdx"
        BY <1>1, <3>2, Finished, HonestState DEF Honest, Present
      <4>2. Policy(t, "MRTD") = {"known"} /\ Policy(t, "MRSEAM") = {"known"}
        BY <3>2, DefaultMeasurements
      <4>3. InAllowlists(t, {"MRTD", "MRSEAM"}) = "Pass"
        BY <1>1, <4>2 DEF InAllowlists, Check, Sound
      <4> QED
        BY <1>2, <4>1, <4>3 DEF TEEMeasurement
    <3> QED
      BY <3>1, <3>2
  <2> QED
    BY <1>8, <2>1, CoreEvaluators
<1>9. CASE n \in Platform
  <2>1. prov \in Tinfoil /\ t = "model"
    BY <1>4, <1>9 DEF Present, Tinfoil
  <2>2. /\ IsTDX(e) => res.tinfoil.policy = "ok" /\ res.tinfoil.hardware = "match"
        /\ ~IsTDX(e) => res.tinfoil.policy = "none" /\ res.tinfoil.hardware = "none"
    BY <2>1, HonestTinfoil
  <2>3. TEEHardwareConfig(t) = "Pass"
    BY <1>1, <1>2, <2>1, <2>2 DEF TEEHardwareConfig, Check
  <2>4. TEEBootConfig(t) = "Pass"
    BY <1>1, <1>2, <2>1, <2>2 DEF TEEBootConfig, Check
  <2>5. CoreFactors(t).hardware_config = TEEHardwareConfig(t) /\ CoreFactors(t).boot_config = TEEBootConfig(t)
    BY DEF CoreFactors
  <2> QED
    BY <1>3, <1>9, <2>3, <2>4, <2>5 DEF Platform
<1>10. CASE n \in {"compose_binding", "event_log_integrity"}
  <2>1. prov \notin Tinfoil \cup {"chutes"}
    BY <1>10 DEF Inapplicable, M, Present, Tinfoil
  <2>2. e = Dstack
    BY <2>1, HonestState DEF Present
  <2>3. e.compose = "bound" /\ e.events = "match" /\ IsTDX(e)
    BY <1>2, <2>2, SoundDstack
  <2>4. res.compose[t] = "bound"
    BY <1>1, <2>3 DEF Honest, HonestInv
  <2>5. EventLogIntegrity(t) = "Pass"
    BY <2>3 DEF EventLogIntegrity, Check
  <2> QED
    BY <1>10, <2>4, <2>5, CoreEvaluators, CheckTrue
<1> QED
  BY <1>4, <1>5, <1>6, <1>7, <1>8, <1>9, <1>10 DEF CoreNames, Platform

\* The evaluators of the model alone.
LEMMA HonestModel ==
  ASSUME Honest, NEW n \in ModelNames \ CoreNames, n # "e2ee_usable",
         <<"model", n>> \notin MergedAllowFail, <<"model", n>> \notin Inapplicable(prov)
  PROVE  Evaluate(<<"model", n>>) = "Pass"
<1> DEFINE e == ev["model"]
           q == res.quote["model"]
<1>1. /\ Sound(e) /\ q.data = "bound"
      /\ e.quote = "tdx" => q.tcb = IF offline THEN "none" ELSE "UpToDate"
      /\ e.quote = "sev" => q.minimumTCB = TRUE
  BY HonestQuote DEF Present
<1>2. IsTDX(e) = (e.quote = "tdx") /\ IsSEV(e) = (e.quote = "sev") /\ e.quote \in {"tdx", "sev"}
  BY <1>1 DEF Sound, IsTDX, IsSEV
<1>3. offline => n \notin {"pcs_collateral", "tcb_current", "tcb_not_revoked", "nvidia_nras_verified",
                           "build_transparency_log", "sigstore_verification", "sigstore_code_verified"}
  BY DefaultPolicy DEF OnlineFactors, M
<1>4. /\ prov \notin Tinfoil => n \notin OftenMissing
      /\ prov \in Tinfoil => n \notin {"pcs_collateral", "nvswitch_binding"}
      /\ prov = "chutes" => n # "tls_key_binding"
  BY DefaultPolicy DEF M
<1>5. /\ DOMAIN PlatformFactors = {"pcs_collateral", "tcb_current", "tcb_not_revoked"}
      /\ DOMAIN GPUFactors = {"nvidia_payload_present", "nvidia_signature", "nvidia_claims",
                              "nvidia_nonce_client_bound", "nvidia_nras_verified"}
      /\ DOMAIN ChannelFactors = {"signing_key_present", "response_schema", "e2ee_capable", "e2ee_usable",
                                  "tls_key_binding"}
  BY DEF PlatformFactors, GPUFactors, ChannelFactors
<1>6. CASE n \in {"pcs_collateral", "tcb_current", "tcb_not_revoked"}
  <2>1. Evaluate(<<"model", n>>) = PlatformFactors[n]
    BY <1>5, <1>6 DEF Evaluate
  <2>2. ~offline
    BY <1>3, <1>6
  <2>3. CASE e.quote = "tdx"
    <3>1. IsTDX(e) /\ ~IsSEV(e) /\ q.tcb = "UpToDate"
      BY <1>1, <1>2, <2>2, <2>3
    <3>2. /\ PlatformFactors.pcs_collateral = "Pass" /\ PlatformFactors.tcb_current = "Pass"
          /\ PlatformFactors.tcb_not_revoked = "Pass"
      BY <3>1 DEF PlatformFactors, Check
    <3> QED
      BY <1>6, <2>1, <3>2
  <2>4. CASE e.quote = "sev"
    <3>1. prov \in Tinfoil
      BY <2>4, HonestState
    <3>2. n # "pcs_collateral" /\ IsSEV(e) /\ ~IsTDX(e) /\ q.minimumTCB = TRUE
      BY <1>1, <1>2, <1>4, <2>4, <3>1
    <3>3. PlatformFactors.tcb_current = "Pass" /\ PlatformFactors.tcb_not_revoked = "Pass"
      BY <3>2 DEF PlatformFactors, Check
    <3> QED
      BY <1>6, <2>1, <3>2, <3>3
  <2> QED
    BY <1>2, <2>3, <2>4
<1>7. CASE n \in DOMAIN GPUFactors
  <2>1. Evaluate(<<"model", n>>) = GPUFactors[n]
    BY <1>5, <1>7 DEF Evaluate
  <2>2. res.gpu = [ran |-> TRUE, signature |-> e.gpusVerify, claims |-> TRUE, nonce |-> e.gpuNonce]
    <3>1. res.gpu = VerifyGPUs(e)
      BY Finished DEF Honest
    <3> QED
      BY <1>1, <3>1 DEF VerifyGPUs, Sound
  <2>3. res.gpu.ran = TRUE /\ res.gpu.signature = TRUE /\ res.gpu.claims = TRUE /\ res.gpu.nonce = "ours"
        /\ e.gpus # "none"
    BY <1>1, <2>2 DEF Sound
  <2>4. n = "nvidia_nras_verified" => res.nras = "true"
    BY <1>3 DEF Honest, HonestInv, Stages
  <2> QED
    BY <1>5, <1>7, <2>1, <2>3, <2>4 DEF GPUFactors, Check
<1>8. CASE n \in DOMAIN ChannelFactors
  <2>1. Evaluate(<<"model", n>>) = ChannelFactors[n]
    BY <1>5, <1>8 DEF Evaluate
  <2>2. e.key = "valid" /\ e.schema = TRUE
    BY <1>1 DEF Sound
  <2>3. n = "tls_key_binding" => e.fingerprint = "present"
    BY <1>4, HonestState, SoundDstack
  <2> QED
    BY <1>5, <1>8, <2>1, <2>2, <2>3 DEF ChannelFactors, Check
<1>9. CASE n \in {"cpu_gpu_chain", "nvswitch_binding", "measured_model_weights", "build_transparency_log",
                  "sigstore_verification", "sigstore_code_verified"}
  <2>1. Evaluate(<<"model", n>>) = SupplyChainFactors[n]
    BY <1>5, <1>9 DEF Evaluate, CoreNames
  <2>2. CASE prov \in Tinfoil
    <3>1. n \notin {"nvswitch_binding", "build_transparency_log", "sigstore_verification"}
      BY <1>4, <2>2 DEF Inapplicable, M, Tinfoil
    <3>2. /\ res.tinfoil.ran = TRUE /\ res.tinfoil.gpuBound = TRUE /\ res.tinfoil.sigstore = "verified"
          /\ res.tinfoil.code = "match"
      BY <2>2, HonestTinfoil
    <3> QED
      BY <1>9, <2>1, <3>1, <3>2 DEF SupplyChainFactors, Check
  <2>3. CASE prov \notin Tinfoil
    <3>1. n \in {"build_transparency_log", "sigstore_verification"} /\ prov # "chutes"
      BY <1>4, <1>9, <2>3 DEF Inapplicable, M, Tinfoil, OftenMissing
    <3>2. HasSupplyChainPolicy
      BY <2>3, <3>1, ProvidersAssumption DEF Honest, Inv, AllProviders, Tinfoil, HasSupplyChainPolicy
    <3>3. res.build = "Pass" /\ res.sigstore = "Pass"
      BY <1>3, <3>1, <3>2 DEF Honest, HonestInv
    <3> QED
      BY <2>1, <3>1, <3>3 DEF SupplyChainFactors
  <2> QED
    BY <2>2, <2>3
<1> QED
  BY <1>5, <1>6, <1>7, <1>8, <1>9 DEF ModelNames, CoreNames

\* The default policy does not lock an honest provider out, online or offline:
\* every factor it enforces, but the one a live request decides, passes
\* (BuildReport, WithOfflineAllowFail and the default allow_fail lists).
THEOREM Availability == Spec => []HonestIsAdmitted
<1>1. ASSUME Honest, ~Pinned PROVE report.status[Usable] = "Fail" \/ ~Blocked(report)
  <2> SUFFICES ASSUME NEW f \in Evaluated, f # Usable, report.status[f] = "Fail", f \in report.enforced
               PROVE  FALSE
    BY <1>1 DEF Blocked, Honest, Inv, ReportInv
  <2> DEFINE enforced == Evaluated \ MergedAllowFail
             status == [g \in Evaluated |-> IF g \in Inapplicable(prov) THEN "NotApplicable"
                                            ELSE PromoteSkips(g, Evaluate(g), enforced)]
  <2>1. BuildReport.status = status
    BY <1>1 DEF BuildReport, Report
  <2>2. status[f] = "Fail" /\ f \notin MergedAllowFail
    <3> HIDE DEF status
    <3> QED
      BY <1>1, <2>1 DEF Honest, Inv, ReportInv
  <2>3. f \notin Inapplicable(prov) /\ PromoteSkips(f, Evaluate(f), enforced) = "Fail"
    BY <2>2
  <2>4. PICK t \in Tiers, n \in ModelNames : f = <<t, n>> /\ Present(t) /\ (t = "gateway" => n \in CoreNames)
    BY <1>1 DEF Evaluated, M, G, Tiers, ModelNames, Present, Honest, Inv, EvidenceInv
  <2>5. Evaluate(f) = "Pass"
    <3>1. CASE n \in CoreNames
      BY <1>1, <2>2, <2>3, <2>4, <3>1, HonestCore
    <3>2. CASE n \notin CoreNames
      <4>1. t = "model" /\ n # "e2ee_usable"
        BY <2>4, <3>2 DEF Tiers, Usable
      <4> QED
        BY <1>1, <2>2, <2>3, <2>4, <3>2, <4>1, HonestModel
    <3> QED
      BY <3>1, <3>2
  <2> QED
    BY <2>3, <2>5 DEF PromoteSkips
<1>2. Inv /\ HonestInv => HonestIsAdmitted
  BY <1>1 DEF HonestIsAdmitted, Honest
<1> QED
  BY <1>2, Invariance, HonestInvariance, PTL

=============================================================================
