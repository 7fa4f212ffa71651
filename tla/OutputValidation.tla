--------------------------- MODULE OutputValidation ---------------------------
(***************************************************************************)
(* What the runner accepts as the output of an operation: the JSON decode  *)
(* of the bytes read from guest memory, the item limit, and the rules of   *)
(* validate_match_output and validate_extract_output (runner/mod.rs).      *)
(*                                                                         *)
(* Bytes are abstracted to what decoding and validation tell apart.  An    *)
(* item keeps, for every rule, whether its text obeys the rule; only the   *)
(* url and the download_auth_ref keep more, because several rules read     *)
(* them together, and the filename, which may spell a token.               *)
(***************************************************************************)
EXTENDS HostState, Sequences

CONSTANTS
  MaxOutputItems, \* manifest resource_limits.max_output_items
  RefShapes,      \* the counters c for which "dar-<32 hex c>" is considered
  Tokens,         \* the bearer tokens a pack may register; one of them may
                  \* itself be spelled like a ref, and is then in RefShapes
  NoRef           \* an item without a download_auth_ref; also a filename
                  \* that is not the text of a token

ASSUME OutputAssumption ==
  /\ MaxOutputItems \in Nat \ {0}
  /\ 1 .. MaxPerInvocation \subseteq RefShapes
  /\ RefShapes \subseteq Nat
  /\ NoRef \notin RefShapes \cup Tokens

(***************************************************************************)
(* "none": no url, or an empty one.  "malformed": validate_abi_url refuses *)
(* it.  "https" is an https url whose host validate_download_auth_item_    *)
(* host admits, "https_bare" one whose host it refuses (an IP literal, a   *)
(* single label, a trailing dot).                                          *)
(***************************************************************************)
UrlClasses == {"none", "malformed", "http", "https", "https_bare"}

Items ==
  [negative_size: BOOLEAN, url: UrlClasses, auth_profile: BOOLEAN,
   header_profile: BOOLEAN, safe_fields: BOOLEAN,
   filename: {NoRef} \cup Tokens,
   download_auth_ref: {NoRef} \cup RefShapes \cup Tokens,
   safe_metadata: BOOLEAN]

HasRef(item) == item.download_auth_ref # NoRef

HasCredentialRef(item) ==
  HasRef(item) \/ item.auth_profile \/ item.header_profile

\* Fault: a ref of the right shape is taken for a minted one.
RefAcceptedByShape(item, reg) ==
  /\ item.download_auth_ref \in RefShapes
  /\ ~item.auth_profile /\ ~item.header_profile
  /\ item.url = "https"
  /\ ~IsRegisteredToken(reg, item.download_auth_ref)

\* An item that carries a download_auth_ref: the ref has the right shape, is
\* the only credential, belongs to an admissible host, is not a raw token,
\* and was minted during this invocation.
RefAccepted(item, reg) ==
  /\ item.download_auth_ref \in RefShapes
  /\ ~item.auth_profile /\ ~item.header_profile
  /\ item.url = "https"
  /\ ~IsRegisteredToken(reg, item.download_auth_ref)
  /\ ContainsRef(reg, item.download_auth_ref)

ItemAccepted(item, reg) ==
  /\ ~item.negative_size
  /\ item.url # "malformed"
  /\ HasCredentialRef(item) => item.url \in {"https", "https_bare"}
  /\ item.safe_fields
  /\ HasRef(item) => RefAccepted(item, reg)
  /\ item.safe_metadata

(***************************************************************************)
(* The bytes of an output buffer, by what decoding makes of them.  Both    *)
(* output types default every field and refuse unknown ones, so the empty  *)
(* object decodes as either.                                               *)
(***************************************************************************)
Undecodable == [kind |-> "undecodable"]
EmptyJson == [kind |-> "empty", matched |-> FALSE, safe_reason |-> TRUE, items |-> << >>]
MatchJson(matched, safe_reason) ==
  [kind |-> "match", matched |-> matched, safe_reason |-> safe_reason]
ExtractJson(items) == [kind |-> "extract", items |-> items]

DecodesAsMatch(bytes) == bytes.kind \in {"match", "empty"}
DecodesAsExtract(bytes) == bytes.kind \in {"extract", "empty"}

\* decode_match_output, by the error it ends in.
MatchVerdict(bytes) ==
  IF ~DecodesAsMatch(bytes) THEN "json_error"
  ELSE IF ~bytes.safe_reason THEN "abi_validation"
  ELSE "ok"

\* extract_with_registrations after run_operation: decode, count, validate.
ExtractVerdict(bytes, reg) ==
  IF ~DecodesAsExtract(bytes) THEN "json_error"
  ELSE IF Len(bytes.items) > MaxOutputItems THEN "limits"
  ELSE IF \E i \in DOMAIN bytes.items : ~ItemAccepted(bytes.items[i], reg)
         THEN "abi_validation"
  ELSE "ok"

\* The download-auth refs an accepted extract output binds to its items.
RefsOf(bytes) ==
  {bytes.items[i].download_auth_ref :
     i \in {j \in DOMAIN bytes.items : HasRef(bytes.items[j])}}

=============================================================================
