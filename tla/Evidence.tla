------------------------------ MODULE Evidence ------------------------------
(***************************************************************************)
(* Attestation evidence and what the verifiers make of it (tdx.go, sev.go, *)
(* nvidia.go, nvidia_eat.go, eventlog.go, the REPORTDATA verifiers of the  *)
(* providers and Tinfoil's measurement checks).                            *)
(*                                                                         *)
(* Evidence is a record that says how the document relates to the truth:   *)
(* whether the quote parses and is genuine, which registers hold measured  *)
(* values that are known, what REPORTDATA commits to.  Every verifier is   *)
(* an operator on that record, with its early returns.                     *)
(***************************************************************************)
EXTENDS Naturals, FiniteSets

Registers == {"MRTD", "MRSEAM", "RTMR0", "RTMR1", "RTMR2"}

\* What each part of the evidence of one TEE can be.
EvidenceValues ==
  [quote |-> {"tdx", "sev", "none"},
   parses |-> BOOLEAN,          \* the quote or report can be decoded
   genuine |-> BOOLEAN,         \* chain up to the vendor's root and signature
   debug |-> BOOLEAN,           \* the debug bit of the quote
   guestPolicy |-> {"valid", "invalid", "undecodable"},
   minimumTCB |-> BOOLEAN,      \* SEV: all components at least the minimum
   MRTD |-> {"known", "other"}, MRSEAM |-> {"known", "other"},
   RTMR0 |-> {"known", "other"}, RTMR1 |-> {"known", "other"},
   RTMR2 |-> {"known", "other"}, RTMR3 |-> {"zero", "other"},
   tdFields |-> BOOLEAN,        \* XFAM, owner registers and SVN as Tinfoil expects
   nonce |-> {"ours", "other", "absent"},
   key |-> {"valid", "malformed", "absent"},
   address |-> {"match", "other", "absent"},
   fingerprint |-> {"present", "malformed", "absent"},
   dataKey |-> BOOLEAN,         \* REPORTDATA commits to the response's key fields
   dataNonce |-> BOOLEAN,       \* REPORTDATA commits to our nonce
   dataTail |-> BOOLEAN,        \* REPORTDATA's unused half is zero
   format |-> {"dstack", "chutes", "tinfoil"},
   gpus |-> {"eat", "emptyEAT", "notEAT", "list", "none"},
   gpuNonce |-> {"ours", "other", "malformed"},
   gpusVerify |-> BOOLEAN,      \* every GPU: chain, key and SPDM signature
   gpuHash |-> {"match", "other", "absent"},
   topology |-> {"small", "hopper8", "unknown8"},
   nvswitchHash |-> BOOLEAN,
   registryID |-> BOOLEAN,      \* a PPID or a device ID
   compose |-> {"bound", "unbound", "absent"},
   events |-> {"match", "mismatch", "malformed", "absent"},
   schema |-> BOOLEAN]          \* no unknown and no missing field

Dstack ==
  [quote |-> "tdx", parses |-> TRUE, genuine |-> TRUE, debug |-> FALSE,
   guestPolicy |-> "valid", minimumTCB |-> TRUE,
   MRTD |-> "known", MRSEAM |-> "known", RTMR0 |-> "known", RTMR1 |-> "known",
   RTMR2 |-> "known", RTMR3 |-> "other", tdFields |-> TRUE,
   nonce |-> "ours", key |-> "valid", address |-> "match", fingerprint |-> "present",
   dataKey |-> TRUE, dataNonce |-> TRUE, dataTail |-> TRUE, format |-> "dstack",
   gpus |-> "eat", gpuNonce |-> "ours", gpusVerify |-> TRUE, gpuHash |-> "absent",
   topology |-> "small", nvswitchHash |-> TRUE, registryID |-> TRUE,
   compose |-> "bound", events |-> "match", schema |-> TRUE]

Sek8s == [Dstack EXCEPT !.format = "chutes", !.gpus = "list", !.address = "absent",
                        !.fingerprint = "absent", !.compose = "absent", !.events = "absent"]

TinfoilTD == [Dstack EXCEPT !.format = "tinfoil", !.RTMR3 = "zero", !.gpus = "list",
                            !.gpuHash = "match", !.topology = "hopper8",
                            !.compose = "absent", !.events = "absent"]

TinfoilGuest == [TinfoilTD EXCEPT !.quote = "sev", !.registryID = FALSE]

IsTDX(e) == e.quote = "tdx" /\ e.parses
IsSEV(e) == e.quote = "sev" /\ e.parses

-----------------------------------------------------------------------------
(* REPORTDATA: what the provider's scheme commits to.                      *)

VeniceBinding(e) ==
  e.key = "valid" /\ e.dataKey /\ e.address # "other" /\ e.dataNonce

NearBinding(e) ==
  e.address = "match" /\ e.fingerprint = "present" /\ e.dataKey /\ e.dataNonce

\* The preimage takes the client's nonce, never the echoed one.
ChutesBinding(e) ==
  e.key # "absent" /\ e.nonce = "ours" /\ e.dataKey /\ e.dataNonce

HasGPU(e) == e.gpuHash # "absent" /\ e.gpus # "none"

\* Eight GPUs of an unknown architecture fail closed.
TinfoilBinding(e) ==
  /\ e.dataTail
  /\ e.nonce = "ours"
  /\ HasGPU(e) => e.gpuHash = "match" /\ e.topology # "unknown8"
  /\ e.fingerprint # "malformed" /\ e.key # "malformed"
  /\ e.dataKey /\ e.dataNonce

\* The gateway has no signing address: only its TLS key is committed to.
GatewayBinding(e) == e.dataNonce /\ e.fingerprint = "present" /\ e.dataKey

\* multi.Verifier chooses by format, and has a verifier for dstack documents
\* only; the other verifiers do not look at the format.
ReportDataBinding(prov, byFormat, e) ==
  CASE byFormat /\ e.format # "dstack" -> "unverified"
    [] prov \in {"venice", "nanogpt", "phalacloud"} /\ ~(byFormat /\ e.format # "dstack") ->
         IF VeniceBinding(e) THEN "bound" ELSE "refused"
    [] prov \in {"neardirect", "nearcloud"} -> IF NearBinding(e) THEN "bound" ELSE "refused"
    [] prov = "chutes" -> IF ChutesBinding(e) THEN "bound" ELSE "refused"
    [] OTHER -> IF TinfoilBinding(e) THEN "bound" ELSE "refused"

-----------------------------------------------------------------------------
(* Quotes.                                                                 *)

TCBStatuses == {"UpToDate", "SWHardeningNeeded", "ConfigurationNeeded", "OutOfDate", "Revoked"}

NoQuote == [parsed |-> FALSE, chain |-> FALSE, debug |-> FALSE, data |-> "unverified",
            tcb |-> "none", online |-> FALSE, policy |-> FALSE, minimumTCB |-> FALSE]

\* VerifyTDXQuoteOffline and VerifyTDXQuoteOnline.  One library call checks
\* chain and signature; the collateral pass checks both again, and leaves the
\* TCB status empty when it fails.
VerifyTDXQuote(e, data, offline, tcb) ==
  IF ~e.parses THEN NoQuote
  ELSE [NoQuote EXCEPT !.parsed = TRUE, !.chain = e.genuine, !.debug = e.debug, !.data = data,
                       !.tcb = IF offline \/ ~e.genuine THEN "none" ELSE tcb]

\* VerifySEVReportOffline and VerifySEVReportOnline.  A guest policy that
\* cannot be decoded ends the local checks: the debug bit is not looked at and
\* no TCB error is recorded.
VerifySEVReport(e, data, offline, kds) ==
  IF ~e.parses THEN NoQuote
  ELSE [NoQuote EXCEPT
          !.parsed = TRUE, !.data = data,
          !.chain = e.genuine /\ kds, !.online = ~offline,
          !.debug = e.guestPolicy # "undecodable" /\ e.debug,
          !.policy = e.guestPolicy = "valid" /\ ~e.debug,
          !.minimumTCB = e.guestPolicy = "undecodable" \/ e.minimumTCB]

-----------------------------------------------------------------------------
(* GPUs.                                                                   *)

NoGPUs == [ran |-> FALSE, signature |-> FALSE, claims |-> FALSE, nonce |-> "absent"]

\* VerifyNVIDIAPayload, verifyNVIDIAEAT and VerifyNVIDIAGPUDirect.  The first
\* error ends the verification; the errors after it are never recorded.
VerifyGPUs(e) ==
  CASE e.gpus = "none" -> NoGPUs
    [] e.gpus \in {"notEAT", "emptyEAT"} ->
         [ran |-> TRUE, signature |-> FALSE, claims |-> TRUE, nonce |-> "absent"]
    [] e.gpus = "eat" /\ e.gpuNonce # "ours" ->
         [ran |-> TRUE, signature |-> TRUE, claims |-> FALSE, nonce |-> "other"]
    [] e.gpus = "list" /\ e.gpuNonce = "malformed" ->
         [ran |-> TRUE, signature |-> FALSE, claims |-> TRUE, nonce |-> "absent"]
    [] OTHER ->
         [ran |-> TRUE, signature |-> e.gpusVerify, claims |-> TRUE, nonce |-> e.gpuNonce]

\* GPUEvidenceToEAT wraps a list for NRAS; a payload that is no EAT is not sent.
SentToNRAS(e) == e.gpus \in {"eat", "emptyEAT", "list"}

-----------------------------------------------------------------------------
(* Tinfoil's measurements.                                                 *)

\* CheckTDXPolicy; the debug bit is one of TD_ATTRIBUTES.
TDXPolicyHolds(e, seam) ==
  ~e.debug /\ e.tdFields /\ e.RTMR3 = "zero" /\ seam # {} /\ e.MRSEAM \in seam

\* CompareMultiPlatformTDX and CompareMultiPlatformSEVSNP, against a release
\* that may be another one than the one that runs.
CodeMatches(e, release) ==
  IF IsTDX(e) THEN /\ e.RTMR1 = release
                   /\ e.RTMR2 = release
                   /\ e.RTMR3 = "zero"
  ELSE IsSEV(e) /\ e.MRTD = release

\* MatchHardwareMeasurements.
HardwareMatches(e) == e.MRTD = "known" /\ e.RTMR0 = "known"

=============================================================================
