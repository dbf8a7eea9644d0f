---------------------------- MODULE Verification ----------------------------
(***************************************************************************)
(* One verification of a provider: the configuration that decides what may *)
(* fail (config.go), the evidence as the provider sent it, the verifiers   *)
(* in the order of fetchAndVerify (proxy.go), attestOnConn (the pinned     *)
(* handlers) and verify.Run (the command line), the report of BuildReport  *)
(* (report.go) and what a live request later does to it.                   *)
(*                                                                         *)
(* A factor is <<tier, name>>; the gateway's factors share the evaluators  *)
(* of the model's, as their code does line by line.                        *)
(***************************************************************************)
EXTENDS Evidence

CONSTANTS
  Providers,      \* the configured providers, a subset of AllProviders
  Configs,        \* the configuration files that are tried
  MaxDeviations   \* how far evidence, services and configuration may be off

VARIABLES
  pc,        \* where the verification is
  mode,      \* "proxy" or "cli"
  prov,      \* the provider
  offline,   \* the --offline flag
  conf,      \* the configuration file
  budget,    \* deviations left
  ev,        \* evidence of the model and of the gateway
  world,     \* what the services that are asked would answer
  res,       \* the verifiers' results
  report     \* status and enforcement of every factor, and the counters

vars == <<pc, mode, prov, offline, conf, budget, ev, world, res, report>>

AllProviders == {"venice", "neardirect", "nearcloud", "nanogpt", "phalacloud",
                 "chutes", "tinfoil_v3_cloud", "tinfoil_v3_direct"}

Tinfoil == {"tinfoil_v3_cloud", "tinfoil_v3_direct"}
Near == {"neardirect", "nearcloud"}
Tiers == {"model", "gateway"}
Layers == {"provider", "global"}

CoreNames == {"nonce_match", "quote_present", "quote_structure", "cert_chain",
              "quote_signature", "debug_disabled", "measurement", "hardware_config",
              "boot_config", "reportdata_binding", "compose_binding",
              "cpu_id_registry", "event_log_integrity"}

ModelNames == CoreNames \cup
  {"signing_key_present", "response_schema", "pcs_collateral", "tcb_current",
   "tcb_not_revoked", "nvidia_payload_present", "nvidia_signature", "nvidia_claims",
   "nvidia_nonce_client_bound", "nvidia_nras_verified", "e2ee_capable", "e2ee_usable",
   "tls_key_binding", "cpu_gpu_chain", "nvswitch_binding", "measured_model_weights",
   "build_transparency_log", "sigstore_verification", "sigstore_code_verified"}

M(names) == {"model"} \X names
G(names) == {"gateway"} \X names

KnownFactors == M(ModelNames) \cup G(CoreNames)

-----------------------------------------------------------------------------
(* Configuration.  A file may set allow_fail for the provider, at its top  *)
(* level and in [policy] (a set of zero or one lists each), and pin        *)
(* measurements in either layer.                                           *)

ASSUME ConfigsAssumption ==
  \A c \in Configs : /\ DOMAIN c = {"provider", "top", "section", "pins", "e2ee"}
                     /\ \A p \in c.pins : p.layer \in Layers /\ p.tier \in Tiers
                                          /\ p.register \in Registers

ASSUME ProvidersAssumption == Providers \subseteq AllProviders
ASSUME DeviationsAssumption == MaxDeviations \in Nat

DefaultConfig == [provider |-> {}, top |-> {}, section |-> {}, pins |-> {}, e2ee |-> {}]

TheList(opt) == CHOOSE l \in opt : TRUE

GlobalAllowFail(c) == IF c.top # {} THEN c.top ELSE c.section

\* loadTOML refuses unknown factors and empty allowlists; a [policy] list that
\* the top level hides is not looked at.
Loads(c) ==
  /\ \A l \in c.provider \cup GlobalAllowFail(c) : l \subseteq KnownFactors
  /\ \A p \in c.pins : p.list # {}

OftenMissing == {"cpu_gpu_chain", "measured_model_weights", "cpu_id_registry", "response_schema"}
Platform == {"hardware_config", "boot_config"}

ProviderDefaultAllowFail(p) ==
  CASE p = "nearcloud" -> M(OftenMissing \cup Platform)
                          \cup G(Platform \cup {"reportdata_binding", "cpu_id_registry"})
    [] p = "neardirect" -> M(OftenMissing \cup Platform)
    [] p = "chutes" -> M(OftenMissing \cup Platform
                         \cup {"nvidia_signature", "nvidia_nras_verified", "tls_key_binding"})
    [] p = "tinfoil_v3_cloud" ->
         M({"cpu_id_registry", "pcs_collateral", "cert_chain", "quote_signature",
            "nvidia_payload_present", "nvidia_signature", "nvidia_claims",
            "cpu_gpu_chain", "nvswitch_binding"})
    [] p = "tinfoil_v3_direct" -> M({"cpu_id_registry", "pcs_collateral", "nvswitch_binding"})
    [] OTHER ->
         M(OftenMissing \cup Platform
           \cup {"quote_present", "quote_structure", "pcs_collateral", "tcb_current",
                 "nvidia_payload_present", "nvidia_claims", "nvidia_nras_verified",
                 "e2ee_capable", "e2ee_usable", "tls_key_binding"})
         \cup G(Platform \cup {"quote_present", "quote_structure", "reportdata_binding",
                               "cpu_id_registry"})

OnlineFactors ==
  M({"pcs_collateral", "tcb_current", "tcb_not_revoked", "nvidia_nras_verified",
     "e2ee_usable", "build_transparency_log", "cpu_id_registry",
     "sigstore_verification", "sigstore_code_verified"})
  \cup G({"cpu_id_registry"})

\* mutant: the flag does not relax the policy
WithOfflineAllowFailNot(allow) == allow

WithOfflineAllowFail(allow) == allow \cup OnlineFactors

MergedAllowFail ==
  LET base == CASE conf.provider # {} -> TheList(conf.provider)
                [] conf.provider = {} /\ GlobalAllowFail(conf) # {} ->
                     TheList(GlobalAllowFail(conf))
                [] OTHER -> ProviderDefaultAllowFail(prov)
  IN  IF offline THEN WithOfflineAllowFail(base) ELSE base

\* MeasurementDefaults: {} is no policy for the register.
MeasurementDefaults(t, r) ==
  CASE t = "gateway" -> IF prov = "nearcloud" THEN {"known"} ELSE {}
    [] t = "model" /\ prov = "phalacloud" -> {}
    [] t = "model" /\ prov \in Tinfoil -> IF r = "MRSEAM" THEN {"known"} ELSE {}
    [] OTHER -> {"known"}

\* MergedMeasurementPolicy and MergedGatewayMeasurementPolicy, per register.
Policy(t, r) ==
  LET pinned(l) == {p \in conf.pins : p.layer = l /\ p.tier = t /\ p.register = r}
  IN  CASE pinned("provider") # {} -> (CHOOSE p \in pinned("provider") : TRUE).list
        [] pinned("provider") = {} /\ pinned("global") # {} ->
             (CHOOSE p \in pinned("global") : TRUE).list
        [] OTHER -> MeasurementDefaults(t, r)

\* The pinned handlers always use E2EE, and hand no inapplicable factors on.
Pinned == mode = "proxy" /\ prov \in Near

E2EEConfigured ==
  \/ Pinned
  \/ IF conf.e2ee # {} THEN TheList(conf.e2ee)
                       ELSE prov \in Tinfoil \cup {"venice", "nearcloud", "chutes"}

Inapplicable(p) ==
  CASE p \in Tinfoil -> M({"nvidia_nonce_client_bound", "nvidia_nras_verified", "compose_binding",
                           "build_transparency_log", "sigstore_verification",
                           "event_log_integrity"})
    [] p = "chutes" -> M({"compose_binding", "build_transparency_log", "sigstore_verification",
                          "event_log_integrity", "sigstore_code_verified", "nvswitch_binding"})
    [] OTHER -> M({"sigstore_code_verified", "nvswitch_binding"})

HasSupplyChainPolicy == prov \in {"venice", "neardirect", "nearcloud", "nanogpt"}

-----------------------------------------------------------------------------
(* What may be off.  world is what the services would say; its nominal     *)
(* values are the good ones.                                               *)

Services ==
  [pcs |-> TCBStatuses \cup {"none"}, kds |-> BOOLEAN,
   nras |-> {"true", "false", "error"},
   model |-> {"registered", "unregistered", "error"},
   gateway |-> {"registered", "unregistered", "error"},
   images |-> {"vouched", "unvouched"},
   bundle |-> {"verified", "refused", "otherType"},
   release |-> {"known", "other"}, hardware |-> BOOLEAN,
   live |-> {"pass", "fail", "nokey"}]

AllWell == [pcs |-> "UpToDate", kds |-> TRUE, nras |-> "true", model |-> "registered",
            gateway |-> "registered", images |-> "vouched", bundle |-> "verified",
            release |-> "known", hardware |-> TRUE, live |-> "pass"]

Nominal(p) == CASE p = "chutes" -> {Sek8s}
                [] p \in Tinfoil -> {TinfoilTD, TinfoilGuest}
                [] OTHER -> {Dstack}

\* The fields a provider's parser can deliver otherwise, with their values.
Deliverable(t, f) ==
  IF /\ t = "gateway"
     /\ prov # "nearcloud" \/ f \in {"key", "address", "gpus", "gpuNonce", "gpusVerify", "schema"}
  THEN {}
  ELSE CASE f = "quote" -> {"none"}
         [] f \in {"guestPolicy", "minimumTCB"} ->
              IF ev[t].quote = "sev" THEN EvidenceValues[f] ELSE {}
         [] f \in {"gpuHash", "topology", "nvswitchHash", "tdFields", "RTMR3", "dataTail"} ->
              IF prov \in Tinfoil THEN EvidenceValues[f] ELSE {}
         [] f = "format" -> IF prov \in {"nanogpt", "phalacloud"} THEN {"chutes"} ELSE {}
         [] f = "gpus" -> IF ev[t].gpus \in {"list", "none"} THEN {"none"}
                                                           ELSE {"emptyEAT", "notEAT", "none"}
         [] f \in {"compose", "events"} -> IF ev[t][f] = "absent" THEN {} ELSE EvidenceValues[f]
         [] OTHER -> EvidenceValues[f]

Init ==
  /\ pc = "load"
  /\ mode \in {"proxy", "cli"} /\ prov \in Providers /\ offline \in BOOLEAN
  /\ conf = DefaultConfig /\ budget = MaxDeviations
  /\ \E e \in Nominal(prov) :
       ev = [model |-> e,
             gateway |-> IF prov = "nearcloud" THEN Dstack ELSE [Dstack EXCEPT !.quote = "none"]]
  /\ world = AllWell
  /\ res = [quote |-> [t \in Tiers |-> NoQuote], gpu |-> NoGPUs, nras |-> "none",
            poc |-> [t \in Tiers |-> "none"], compose |-> [t \in Tiers |-> "none"],
            build |-> "Skip", sigstore |-> "Skip",
            tinfoil |-> [ran |-> FALSE, gpuBound |-> FALSE, nvswitch |-> "notExpected",
                         policy |-> "none", sigstore |-> "none", code |-> "none",
                         hardware |-> "none"],
            live |-> "none"]
  /\ report = [built |-> FALSE]

Load ==
  /\ pc = "load"
  /\ \E c \in Configs \cup {DefaultConfig} :
       /\ c # DefaultConfig => budget > 0
       /\ conf' = c
       /\ budget' = IF c # DefaultConfig THEN budget - 1 ELSE budget
       /\ pc' = IF Loads(c) THEN "fetch" ELSE "refused"
  /\ UNCHANGED <<mode, prov, offline, ev, world, res, report>>

\* The document or a service is not what an honest provider would have.
Deviate ==
  /\ pc = "fetch" /\ budget > 0
  /\ budget' = budget - 1
  /\ \/ \E t \in Tiers : \E f \in DOMAIN EvidenceValues : \E v \in Deliverable(t, f) \ {ev[t][f]} :
          ev' = [ev EXCEPT ![t] = [ev[t] EXCEPT ![f] = v]] /\ UNCHANGED world
     \/ \E s \in DOMAIN Services : \E v \in Services[s] \ {world[s]} :
          world' = [world EXCEPT ![s] = v] /\ UNCHANGED ev
  /\ UNCHANGED <<pc, mode, prov, offline, conf, res, report>>

\* FetchAttestation.  ParseGatewayResponse refuses a gateway section without
\* quote and fingerprint; the pinned handler one without a fingerprint.
Fetch ==
  /\ pc = "fetch"
  /\ LET g == ev.gateway
         empty == g.quote = "none" /\ g.fingerprint = "absent"
         refused == prov = "nearcloud"
                    /\ (empty \/ (Pinned /\ g.fingerprint # "present"))
     IN  \E failed \in {refused, TRUE} : pc' = IF failed THEN "refused" ELSE "quotes"
  /\ UNCHANGED <<mode, prov, offline, conf, budget, ev, world, res, report>>

-----------------------------------------------------------------------------
(* The verifiers.                                                          *)

\* The command line gives NanoGPT the verifier of Venice.
ByFormat == prov = "phalacloud" \/ (prov = "nanogpt" /\ mode = "proxy")

VerifyQuote(t) ==
  LET data == CASE t = "model" -> ReportDataBinding(prov, ByFormat, ev[t])
                [] OTHER -> IF GatewayBinding(ev[t]) THEN "bound" ELSE "refused"
  IN  CASE ev[t].quote = "tdx" -> VerifyTDXQuote(ev[t], data, offline, world.pcs)
        [] ev[t].quote = "sev" -> VerifySEVReport(ev[t], data, offline, world.kds)
        [] OTHER -> NoQuote

VerifyQuotes ==
  /\ pc = "quotes" /\ pc' = "gpus"
  /\ res' = [res EXCEPT !.quote = [t \in Tiers |-> VerifyQuote(t)]]
  /\ UNCHANGED <<mode, prov, offline, conf, budget, ev, world, report>>

\* The command line returns before NRAS when the GPU nonce cannot be parsed.
VerifyNVIDIA ==
  /\ pc = "gpus" /\ pc' = "poc"
  /\ LET e == ev.model
         unparsed == mode = "cli" /\ e.gpus = "list" /\ e.gpuNonce = "malformed"
     IN  res' = [res EXCEPT !.gpu = VerifyGPUs(e),
                            !.nras = IF offline \/ ~SentToNRAS(e) \/ unparsed
                                     THEN "none" ELSE world.nras]
  /\ UNCHANGED <<mode, prov, offline, conf, budget, ev, world, report>>

VerifyPoC ==
  /\ pc = "poc" /\ pc' = "supply"
  /\ res' = [res EXCEPT !.poc =
               [t \in Tiers |-> IF offline \/ ev[t].quote # "tdx" THEN "none" ELSE world[t]]]
  /\ UNCHANGED <<mode, prov, offline, conf, budget, ev, world, report>>

\* verifySupplyChain and the pinned handlers' form of it; what the log lookups
\* say of the images is module SupplyChain's subject.
VerifySupplyChain ==
  /\ pc = "supply" /\ pc' = "tinfoil"
  /\ LET compose == [t \in Tiers |->
                       CASE ev[t].compose = "absent" \/ ~IsTDX(ev[t]) -> "none"
                         [] OTHER -> ev[t].compose]
         repos(t) == compose[t] = "bound"
         listed == repos("model") /\ (prov = "nearcloud" => repos("gateway"))
         asked == ~offline /\ (repos("model") \/ repos("gateway"))
         vouched == world.images = "vouched"
     IN  res' = [res EXCEPT
                   !.compose = compose,
                   !.sigstore = CASE ~asked -> "Skip"
                                  [] OTHER -> IF vouched THEN "Pass" ELSE "Fail",
                   !.build = CASE HasSupplyChainPolicy ->
                                    IF listed /\ asked /\ vouched THEN "Pass" ELSE "Fail"
                               [] ~HasSupplyChainPolicy /\ asked ->
                                    IF vouched THEN "Pass" ELSE "Fail"
                               [] OTHER -> IF ev.model.compose = "absent" THEN "Fail" ELSE "Skip"]
  /\ UNCHANGED <<mode, prov, offline, conf, budget, ev, world, report>>

\* verifyTinfoilSupplyChain.  The command line stops before the bundle when
\* offline; the proxy fetches it all the same.  A bundle that does not verify
\* ends it with neither a match nor a mismatch of the code.
TinfoilSupplyChain ==
  LET e == ev.model
      q == res.quote["model"]
      bound == q.parsed /\ q.data = "bound" /\ HasGPU(e)
      fetched == ~(mode = "cli" /\ offline)
      compared == fetched /\ world.bundle = "verified"
  IN  [ran |-> TRUE,
       gpuBound |-> bound,
       nvswitch |-> CASE ~bound \/ e.topology # "hopper8" -> "notExpected"
                      [] OTHER -> IF e.nvswitchHash THEN "bound" ELSE "broken",
       policy |-> CASE ~IsTDX(e) -> "none"
                    [] OTHER -> IF TDXPolicyHolds(e, Policy("model", "MRSEAM"))
                                THEN "ok" ELSE "failed",
       sigstore |-> CASE ~fetched -> "none"
                      [] OTHER -> IF world.bundle = "refused" THEN "error" ELSE "verified",
       code |-> CASE ~fetched \/ world.bundle = "refused" -> "none"
                  [] OTHER -> IF compared /\ CodeMatches(e, world.release)
                              THEN "match" ELSE "mismatch",
       hardware |-> CASE ~compared \/ ~IsTDX(e) -> "none"
                      [] OTHER -> IF world.hardware /\ HardwareMatches(e)
                                  THEN "match" ELSE "mismatch"]

VerifyTinfoilSupplyChain ==
  /\ pc = "tinfoil" /\ pc' = "live"
  /\ res' = IF prov \in Tinfoil THEN [res EXCEPT !.tinfoil = TinfoilSupplyChain] ELSE res
  /\ UNCHANGED <<mode, prov, offline, conf, budget, ev, world, report>>

\* testE2EE: the command line sends one encrypted request of its own.
LiveTest ==
  /\ pc = "live" /\ pc' = "report"
  /\ LET tested == /\ mode = "cli" /\ ev.model.key # "absent"
                   /\ prov \in Tinfoil \cup Near \cup {"venice", "chutes"}
     IN  res' = [res EXCEPT !.live = CASE ~tested -> "none"
                                       [] tested /\ offline -> "notAttempted"
                                       [] tested /\ ~offline /\ world.live = "pass" ->
                                            IF ev.model.key = "valid" THEN "pass" ELSE "fail"
                                       [] OTHER -> world.live]
  /\ UNCHANGED <<mode, prov, offline, conf, budget, ev, world, report>>

-----------------------------------------------------------------------------
(* The evaluators of report.go: "Pass", "Fail" or "Skip".                  *)

Check(b) == IF b THEN "Pass" ELSE "Fail"

\* Registers without an allowlist are not looked at.
InAllowlists(t, registers) ==
  LET checked == {r \in registers : Policy(t, r) # {}}
  IN  IF checked = {} THEN "Skip" ELSE Check(\A r \in checked : ev[t][r] \in Policy(t, r))

CertChain(t) ==
  LET q == res.quote[t]
  IN  CASE ev[t].quote = "none" -> "Fail"
        [] ev[t].quote # "none" /\ ~q.parsed -> "Skip"
        [] IsSEV(ev[t]) /\ ~q.online -> "Skip"
        [] OTHER -> Check(q.chain)

DebugDisabled(t) ==
  CASE ev[t].quote = "none" -> "Fail"
    [] ev[t].quote # "none" /\ ~res.quote[t].parsed -> "Skip"
    [] OTHER -> Check(~res.quote[t].debug)

TEEMeasurement(t) ==
  LET code == IF t = "model" THEN res.tinfoil.code ELSE "none"
  IN  CASE code = "match" -> "Pass"
        [] code = "mismatch" -> "Fail"
        [] code = "none" /\ IsTDX(ev[t]) -> InAllowlists(t, {"MRTD", "MRSEAM"})
        [] code = "none" /\ IsSEV(ev[t]) -> InAllowlists(t, {"MRTD"})
        [] OTHER -> "Skip"

TEEHardwareConfig(t) ==
  CASE t = "model" /\ res.tinfoil.policy # "none" -> Check(res.tinfoil.policy = "ok")
    [] IsTDX(ev[t]) /\ ~(t = "model" /\ res.tinfoil.policy # "none") -> InAllowlists(t, {"RTMR0"})
    [] IsSEV(ev[t]) -> Check(res.quote[t].policy)
    [] OTHER -> "Skip"

TEEBootConfig(t) ==
  CASE t = "model" /\ res.tinfoil.hardware # "none" -> Check(res.tinfoil.hardware = "match")
    [] IsTDX(ev[t]) /\ ~(t = "model" /\ res.tinfoil.hardware # "none") ->
         InAllowlists(t, {"RTMR1", "RTMR2"})
    [] IsSEV(ev[t]) -> "Pass"
    [] OTHER -> "Skip"

CPUIDRegistry(t) ==
  CASE res.poc[t] = "registered" -> "Pass"
    [] res.poc[t] = "unregistered" -> "Fail"
    [] res.poc[t] = "error" -> "Skip"
    [] OTHER -> IF t = "gateway" \/ ev[t].registryID THEN "Skip" ELSE "Fail"

EventLogIntegrity(t) ==
  IF ev[t].events = "absent" \/ ~IsTDX(ev[t]) THEN "Skip" ELSE Check(ev[t].events = "match")

\* The evaluators both tiers have.
CoreFactors(t) ==
  LET e == ev[t] q == res.quote[t]
  IN [nonce_match |-> Check(e.nonce = "ours"),
      quote_present |-> Check(e.quote # "none"),
      quote_structure |-> Check(q.parsed),
      cert_chain |-> CertChain(t),
      quote_signature |-> CertChain(t),
      debug_disabled |-> DebugDisabled(t),
      measurement |-> TEEMeasurement(t),
      hardware_config |-> TEEHardwareConfig(t),
      boot_config |-> TEEBootConfig(t),
      reportdata_binding |->
        Check(q.parsed /\ q.data = "bound" /\ (t = "model" => e.key # "absent")),
      compose_binding |->
        IF res.compose[t] = "none" THEN "Skip" ELSE Check(res.compose[t] = "bound"),
      cpu_id_registry |-> CPUIDRegistry(t),
      event_log_integrity |-> EventLogIntegrity(t)]

\* The platform's state.  ConfigurationNeeded alone is neither current nor
\* out of date.
PlatformFactors ==
  LET e == ev.model q == res.quote["model"]
  IN [pcs_collateral |-> IF IsTDX(e) /\ q.tcb # "none" THEN "Pass" ELSE "Skip",
      tcb_current |->
        CASE IsTDX(e) -> IF q.tcb \in {"none", "ConfigurationNeeded"} THEN "Skip"
                         ELSE Check(q.tcb = "UpToDate")
          [] IsSEV(e) -> Check(q.minimumTCB)
          [] OTHER -> "Skip",
      tcb_not_revoked |->
        CASE IsTDX(e) -> IF q.tcb = "none" THEN "Skip" ELSE Check(q.tcb # "Revoked")
          [] IsSEV(e) -> Check(q.minimumTCB)
          [] OTHER -> "Skip"]

GPUFactors ==
  LET g == res.gpu
      ifRan(s) == IF g.ran THEN s ELSE "Skip"
  IN [nvidia_payload_present |-> Check(ev.model.gpus # "none"),
      nvidia_signature |-> ifRan(Check(g.signature)),
      nvidia_claims |-> ifRan(Check(g.claims)),
      nvidia_nonce_client_bound |->
        IF ~g.ran \/ g.nonce = "absent" THEN "Skip" ELSE Check(g.nonce = "ours"),
      nvidia_nras_verified |->
        IF res.nras = "none" THEN "Skip" ELSE Check(res.nras = "true")]

ChannelFactors ==
  LET e == ev.model
  IN [signing_key_present |-> Check(e.key # "absent"),
      response_schema |-> Check(e.schema),
      e2ee_capable |-> Check(e.key = "valid"),
      e2ee_usable |-> CASE res.live = "pass" -> "Pass"
                        [] res.live = "fail" -> "Fail"
                        [] OTHER -> "Skip",
      tls_key_binding |->
        CASE e.fingerprint # "absent" -> "Pass"
          [] e.fingerprint = "absent" /\ prov \notin Tinfoil /\ e.key # "absent" -> "Skip"
          [] OTHER -> "Fail"]

SupplyChainFactors ==
  LET sc == res.tinfoil
  IN [cpu_gpu_chain |-> Check(sc.gpuBound),
      nvswitch_binding |->
        IF ~sc.gpuBound THEN "Skip" ELSE Check(sc.nvswitch # "broken"),
      measured_model_weights |-> Check(sc.sigstore = "verified" /\ sc.code = "match"),
      build_transparency_log |-> res.build,
      sigstore_verification |-> res.sigstore,
      sigstore_code_verified |->
        IF ~sc.ran THEN "Skip" ELSE Check(sc.sigstore = "verified" /\ sc.code = "match")]

\* buildEvaluators: no gateway quote, no gateway factors.
Evaluate(f) ==
  LET t == f[1] n == f[2]
  IN  CASE n \in CoreNames -> CoreFactors(t)[n]
        [] n \in DOMAIN PlatformFactors -> PlatformFactors[n]
        [] n \in DOMAIN GPUFactors -> GPUFactors[n]
        [] n \in DOMAIN ChannelFactors -> ChannelFactors[n]
        [] OTHER -> SupplyChainFactors[n]

Evaluated == M(ModelNames) \cup (IF ev.gateway.quote = "tdx" THEN G(CoreNames) ELSE {})

\* recomputeCounters.
Counters(status, enforced) ==
  LET with(s) == {f \in DOMAIN status : status[f] = s}
  IN  [passed |-> Cardinality(with("Pass")), failed |-> Cardinality(with("Fail")),
       skipped |-> Cardinality(with("Skip")), notApplicable |-> Cardinality(with("NotApplicable")),
       enforcedFailed |-> Cardinality(with("Fail") \cap enforced),
       allowedFailed |-> Cardinality(with("Fail") \ enforced)]

Report(status, enforced) ==
  [built |-> TRUE, status |-> status, enforced |-> enforced,
   counters |-> Counters(status, enforced)]

\* A live test decides e2ee_usable later: a Skip of it is left alone.
Deferred == IF mode = "proxy" /\ E2EEConfigured THEN M({"e2ee_usable"}) ELSE {}

\* mutant: an enforced skip passes
PromoteSkipsNot(f, status, enforced) == status

PromoteSkips(f, status, enforced) ==
  IF status = "Skip" /\ f \in enforced \ Deferred THEN "Fail" ELSE status

BuildReport ==
  LET enforced == Evaluated \ MergedAllowFail
      inapplicable == IF Pinned THEN {} ELSE Inapplicable(prov)
  IN  Report([f \in Evaluated |->
                IF f \in inapplicable THEN "NotApplicable"
                ELSE PromoteSkips(f, Evaluate(f), enforced)], enforced)

MakeReport ==
  /\ pc = "report" /\ pc' = "done"
  /\ report' = BuildReport
  /\ UNCHANGED <<mode, prov, offline, conf, budget, ev, world, res>>

Blocked(r) == \E f \in DOMAIN r.status : r.status[f] = "Fail" /\ f \in r.enforced

\* Requests use E2EE only under a bound key.
ReportDataBindingPassed(r) == r.status[<<"model", "reportdata_binding">>] = "Pass"

-----------------------------------------------------------------------------
(* After the report: requests that used E2EE.                              *)

Usable == <<"model", "e2ee_usable">>

MarkUsable(status) == [report.status EXCEPT ![Usable] = status]

\* A request may end after another one has marked the report.
E2EEUsed == /\ pc = "done" /\ mode = "proxy" /\ E2EEConfigured
            /\ ~Blocked([report EXCEPT !.status = MarkUsable("Skip")])
            /\ ReportDataBindingPassed(report)

\* mutant: a failure is overwritten
MarkE2EEUsableAlways ==
  /\ E2EEUsed
  /\ report' = Report(MarkUsable("Pass"), report.enforced)
  /\ UNCHANGED <<pc, mode, prov, offline, conf, budget, ev, world, res>>

MarkE2EEUsable ==
  /\ E2EEUsed /\ report.status[Usable] = "Skip"
  /\ report' = Report(MarkUsable("Pass"), report.enforced)
  /\ UNCHANGED <<pc, mode, prov, offline, conf, budget, ev, world, res>>

\* mutant: the counters are not recomputed
MarkE2EEFailedStale ==
  /\ E2EEUsed /\ report.status[Usable] # "Fail"
  /\ report' = [report EXCEPT !.status = MarkUsable("Fail")]
  /\ UNCHANGED <<pc, mode, prov, offline, conf, budget, ev, world, res>>

MarkE2EEFailed ==
  /\ E2EEUsed /\ report.status[Usable] # "Fail"
  /\ report' = Report(MarkUsable("Fail"), report.enforced)
  /\ UNCHANGED <<pc, mode, prov, offline, conf, budget, ev, world, res>>

Next ==
  \/ Load \/ Deviate \/ Fetch
  \/ VerifyQuotes \/ VerifyNVIDIA \/ VerifyPoC \/ VerifySupplyChain
  \/ VerifyTinfoilSupplyChain \/ LiveTest \/ MakeReport
  \/ MarkE2EEUsable \/ MarkE2EEFailed

Spec == Init /\ [][Next]_vars

-----------------------------------------------------------------------------
(* Properties.                                                             *)

Statuses == {"Pass", "Fail", "Skip", "NotApplicable"}

\* Every report covers the factors it must and its counters agree with them:
\* they add up to the factors, and an enforced failure is counted exactly when
\* the report blocks (recomputeCounters after MarkE2EEUsable, MarkE2EEFailed).
TypeOK ==
  /\ pc \in {"load", "fetch", "quotes", "gpus", "poc", "supply", "tinfoil", "live",
             "report", "done", "refused"}
  /\ prov \in Providers /\ offline \in BOOLEAN /\ budget \in 0..MaxDeviations
  /\ \A t \in Tiers : \A f \in DOMAIN EvidenceValues : ev[t][f] \in EvidenceValues[f]
  /\ pc = "done" =>
       LET c == report.counters
       IN  /\ report.status \in [Evaluated -> Statuses]
           /\ c.passed + c.failed + c.skipped + c.notApplicable = Cardinality(Evaluated)
           /\ c.enforcedFailed + c.allowedFailed = c.failed
           /\ (c.enforcedFailed > 0) <=> Blocked(report)

Enforces(f) == f \notin MergedAllowFail

Genuine(e) == e.quote # "none" /\ e.parses /\ e.genuine

\* A guest policy that cannot be decoded is caught by hardware_config only.
PolicyDecoded(t) ==
  ~(ev[t].quote = "sev" /\ ev[t].guestPolicy = "undecodable"
    /\ ~Enforces(<<t, "hardware_config">>))

\* What an operator who enforces factor f relies on, in terms of the evidence
\* and the services and not of any verifier's result.  The factors named here
\* are the ones whose meaning the model's evidence can tell; of the others
\* nothing is promised.
Promise(f) ==
  LET t == f[1] n == f[2] e == ev[t]
  IN  CASE n = "nonce_match" -> e.nonce = "ours"
        [] n \in {"cert_chain", "quote_signature"} -> Genuine(e)
        [] n = "debug_disabled" -> PolicyDecoded(t) => e.parses /\ ~e.debug
        [] n = "measurement" ->
             IF prov \in Tinfoil /\ Enforces(<<t, "sigstore_code_verified">>)
             THEN CodeMatches(e, world.release)
             ELSE LET pinned == {r \in {"MRTD", "MRSEAM"} : Policy(t, r) # {}}
                  IN  prov \in Tinfoil
                      \/ (pinned # {} /\ \A r \in pinned : e[r] \in Policy(t, r))
        [] n = "reportdata_binding" ->
             e.dataKey /\ e.dataNonce /\ (t = "model" => e.key # "absent")
        [] n = "tcb_not_revoked" ->
             IF e.quote = "sev" THEN PolicyDecoded(t) => e.minimumTCB
                                ELSE world.pcs \notin {"Revoked", "none"}
        [] n = "tcb_current" /\ e.quote = "tdx" -> world.pcs = "UpToDate"
        [] n = "nvidia_nonce_client_bound" -> e.gpuNonce = "ours"
        [] n = "nvidia_signature" ->
             e.gpusVerify \/ (e.gpuNonce # "ours" /\ ~Enforces(<<t, "nvidia_nonce_client_bound">>))
        [] n = "compose_binding" -> e.compose = "bound"
        [] n = "event_log_integrity" -> e.events = "match"
        [] n = "cpu_gpu_chain" -> prov \in Tinfoil /\ e.gpuHash = "match"
        [] n = "build_transparency_log" ->
             /\ world.images = "vouched" /\ e.compose = "bound"
             /\ prov = "nearcloud" => ev.gateway.compose = "bound"
        [] n = "sigstore_code_verified" -> CodeMatches(e, world.release)
        [] OTHER -> TRUE

RelevantFactors ==
  (M(ModelNames) \ (IF Pinned THEN {} ELSE Inapplicable(prov)))
  \cup (IF prov = "nearcloud" THEN G(CoreNames) ELSE {})

\* A report that does not block keeps the promise of every factor that has one
\* and that the merged allow_fail list enforces.  A gateway without a quote has no factors at all;
\* then only build_transparency_log, when enforced, stands in the way.
AdmittedIsAttested ==
  pc = "done" /\ ~Blocked(report) =>
    \A f \in RelevantFactors \ MergedAllowFail :
      \/ Promise(f)
      \/ /\ f[1] = "gateway" /\ ev.gateway.quote = "none"
         /\ ~Enforces(<<"model", "build_transparency_log">>)

\* An honest provider is not locked out by the default policy, online or
\* offline (WithOfflineAllowFail).  Known exceptions: Phala Cloud has no
\* measurements to compare, an offline Tinfoil verification of the command line
\* or of an SEV guest needs the network, and the pinned handlers build their
\* report without the list of the factors that do not apply to NEAR.
HonestIsAdmitted ==
  pc = "done" /\ budget = MaxDeviations /\ prov # "phalacloud" /\ ~Pinned
  /\ ~(offline /\ prov \in Tinfoil /\ (mode = "cli" \/ ev.model.quote = "sev"))
  => report.status[Usable] = "Fail" \/ ~Blocked(report)

\* Once a report is built only e2ee_usable moves, a failure of it is final and a
\* report that blocks never stops blocking (MarkE2EEUsable, MarkE2EEFailed).
FailureIsFinal ==
  [][report.built =>
       /\ \A f \in DOMAIN report.status \ {Usable} : report'.status[f] = report.status[f]
       /\ report.status[Usable] = "Fail" => report'.status[Usable] = "Fail"
       /\ Blocked(report) => Blocked(report')]_vars

-----------------------------------------------------------------------------
(* The inductive invariant.                                                *)

IsDocument(e) == /\ DOMAIN e = DOMAIN EvidenceValues
                 /\ \A f \in DOMAIN EvidenceValues : e[f] \in EvidenceValues[f]

\* Whatever is off, a document stays one that the provider's parser delivers:
\* only Tinfoil has SEV guests, it has no EAT, and only nearcloud has a gateway.
EvidenceInv ==
  /\ DOMAIN ev = Tiers /\ \A t \in Tiers : IsDocument(ev[t])
  /\ ev.gateway.quote \in IF prov = "nearcloud" THEN {"tdx", "none"} ELSE {"none"}
  /\ prov \notin Tinfoil => ev.model.quote # "sev"
  /\ prov \in Tinfoil => ev.model.gpus \in {"list", "none"}

Stages == {"quotes", "gpus", "poc", "supply", "tinfoil", "live", "report", "done"}
Outcomes == {"Pass", "Fail", "Skip"}

\* Each verifier's result is what it makes of the document that was fetched.
ResultsInv ==
  /\ DOMAIN res = {"quote", "gpu", "nras", "poc", "compose", "build", "sigstore", "tinfoil", "live"}
  /\ res.build \in Outcomes /\ res.sigstore \in Outcomes
  /\ pc \in Stages \ {"quotes"} => res.quote = [t \in Tiers |-> VerifyQuote(t)]
  /\ pc \in Stages \ {"quotes", "gpus"} => res.gpu = VerifyGPUs(ev.model)
  /\ pc \in {"tinfoil", "live", "report", "done"} =>
       /\ \A t \in Tiers : res.compose[t] = "bound" => ev[t].compose = "bound"
       /\ res.build = "Pass" =>
            /\ world.images = "vouched" /\ ev.model.compose = "bound"
            /\ prov = "nearcloud" => ev.gateway.compose = "bound" /\ IsTDX(ev.gateway)
  /\ IF prov \in Tinfoil /\ pc \in {"live", "report", "done"} THEN res.tinfoil = TinfoilSupplyChain
     ELSE res.tinfoil.code = "none" /\ ~res.tinfoil.gpuBound /\ ~res.tinfoil.ran

\* The report is the one that was built, but for e2ee_usable.
ReportInv ==
  /\ report.built = (pc = "done")
  /\ pc = "done" => /\ report.enforced = Evaluated \ MergedAllowFail
                    /\ report.status \in [Evaluated -> Statuses]
                    /\ report.counters = Counters(report.status, report.enforced)
                    /\ LET built == BuildReport.status
                       IN  \A f \in Evaluated \ {Usable} : report.status[f] = built[f]

Inv ==
  /\ pc \in Stages \cup {"load", "fetch", "refused"}
  /\ prov \in Providers /\ mode \in {"proxy", "cli"} /\ offline \in BOOLEAN
  /\ budget \in 0 .. MaxDeviations
  /\ EvidenceInv /\ ResultsInv /\ ReportInv

\* As long as nothing was off, everything is the default and the results that
\* Inv leaves open are the good ones.
HonestInv ==
  budget = MaxDeviations =>
    /\ conf = DefaultConfig /\ world = AllWell /\ ev.model \in Nominal(prov)
    /\ prov = "nearcloud" => ev.gateway = Dstack
    /\ pc \in Stages \ {"quotes", "gpus"} => offline \/ res.nras = "true"
    /\ pc \in {"tinfoil", "live", "report", "done"} =>
         /\ \A t \in Tiers : ev[t].compose = "bound" /\ IsTDX(ev[t]) => res.compose[t] = "bound"
         /\ HasSupplyChainPolicy => offline \/ (res.build = "Pass" /\ res.sigstore = "Pass")
    /\ prov \notin Tinfoil => res.tinfoil.policy = "none" /\ res.tinfoil.hardware = "none"

=============================================================================
