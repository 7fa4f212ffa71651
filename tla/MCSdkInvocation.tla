---------------------------- MODULE MCSdkInvocation ----------------------------
(* A pack with room for four bytes of buffers: the input takes two, every   *)
(* response one, an output one or two (two is above max_output_bytes).      *)
EXTENDS SdkInvocation

CONSTANTS t1, split

PlainItem ==
  [negative_size |-> FALSE, url |-> "https", auth_profile |-> FALSE,
   header_profile |-> FALSE, safe_fields |-> TRUE, filename |-> NoRef,
   download_auth_ref |-> NoRef, safe_metadata |-> TRUE]

MCRefShapes == 0 .. MaxPerInvocation
MCTokens == {t1, split}
MCConfigs == 
  {[broker |-> "Mock", download_auth |-> TRUE, verify_buffer_ownership |-> TRUE]}
MCOutputs ==
  {MatchJson(TRUE, TRUE), ExtractJson(<<[PlainItem EXCEPT !.download_auth_ref = 1]>>)}

=============================================================================
