--------------------------- MODULE MCVerification ---------------------------
(* Every provider; each configuration sets one thing, and costs one of the *)
(* deviations.                                                             *)
EXTENDS Verification

CONSTANT MCProviders

MCConfigs ==
  LET near == ProviderDefaultAllowFail("nearcloud")
              \cup M({"sigstore_code_verified", "nvswitch_binding"})
      pin(l, t, r, list) == [layer |-> l, tier |-> t, register |-> r, list |-> list]
  IN  {[DefaultConfig EXCEPT !.provider = {{}}],
       [DefaultConfig EXCEPT !.provider = {near}],
       [DefaultConfig EXCEPT !.top = {near}, !.section = {{<<"model", "no_such_factor">>}}],
       [DefaultConfig EXCEPT !.section = {{<<"model", "no_such_factor">>}}],
       [DefaultConfig EXCEPT !.section =
          {near \cup M({"hardware_config", "nvidia_nonce_client_bound", "build_transparency_log"})}],
       [DefaultConfig EXCEPT !.pins = {pin("global", "model", "MRTD", {"other"})}],
       [DefaultConfig EXCEPT !.pins = {pin("global", "model", "MRTD", {"other"}),
                                       pin("provider", "model", "MRTD", {"known"})}],
       [DefaultConfig EXCEPT !.pins = {pin("provider", "gateway", "MRSEAM", {})}],
       [DefaultConfig EXCEPT !.e2ee = {FALSE}]}

=============================================================================
