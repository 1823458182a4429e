----------------------------- MODULE ServerAuth -----------------------------
(***************************************************************************)
(* Who a request is from: dashboard logins and service tokens.  The two    *)
(* share the clock and no other state, so that one is explored while the   *)
(* other is at rest.                                                       *)
(***************************************************************************)
EXTENDS OAuthLogin, ServiceAuth

CONSTANT Horizon   \* bound: how far the clock goes while each part is explored

VARIABLE part

vars == <<now, part, oauthVars, serviceVars>>

Init ==
  /\ now = 0 /\ part \in DOMAIN Horizon /\ OAuthInit /\ ServiceInit
  /\ part = "service" => config = CHOOSE c \in Configs : TRUE

Next ==
  \/ part = "oauth" /\ OAuthNext /\ UNCHANGED <<part, serviceVars>>
  \/ part = "service" /\ ServiceNext /\ UNCHANGED <<part, oauthVars>>
  \/ now < Horizon[part] /\ InsertsPrompt /\ Advance /\ UNCHANGED <<part, oauthVars, serviceVars>>

Spec == Init /\ [][Next]_vars

(* The stores of both parts are well-formed and bounded.                   *)
TypeOK == OAuthTypeOK /\ ServiceTypeOK
=============================================================================
