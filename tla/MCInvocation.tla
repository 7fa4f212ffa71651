----------------------------- MODULE MCInvocation -----------------------------
(* Small instances of Invocation: a guest with two usable pointers, one of  *)
(* them outside its memory, and one negative one; two tokens, one of them   *)
(* spelled like the first ref; and the outputs validation tells apart.      *)
EXTENDS Invocation

CONSTANTS t1, bad, split

PlainItem ==
  [negative_size |-> FALSE, url |-> "https", auth_profile |-> FALSE,
   header_profile |-> FALSE, safe_fields |-> TRUE, filename |-> NoRef,
   download_auth_ref |-> NoRef, safe_metadata |-> TRUE]

WithRef(ref) == [PlainItem EXCEPT !.download_auth_ref = ref]

MCRefShapes == 0 .. MaxPerInvocation
MCTokens == {t1, bad, split, 1}

Config(broker, download_auth, verify) ==
  [broker |-> broker, download_auth |-> download_auth, verify_buffer_ownership |-> verify]

MCConfigs ==
  {Config("Mock", TRUE, TRUE), Config("Disabled", TRUE, TRUE), Config("Live", FALSE, FALSE)}
OneConfig == {Config("Mock", TRUE, TRUE)}

MCOutputs ==
  {Undecodable, MatchJson(TRUE, TRUE), ExtractJson(<<WithRef(1)>>),
   ExtractJson(<<WithRef(2), WithRef(1)>>), ExtractJson(<<WithRef(t1)>>),
   ExtractJson(<<[WithRef(1) EXCEPT !.filename = t1]>>)}

=============================================================================
