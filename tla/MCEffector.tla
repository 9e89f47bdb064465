----------------------------- MODULE MCEffector -----------------------------
(* Small instances of Effector: a tool intent that the topic carries twice,  *)
(* an approval and an unauthenticated delivery.                              *)
EXTENDS Effector, TLC

CONSTANTS m1, m2, send, ask, forged

MCLog      == <<send, ask, forged, send>>
MCVerdict  == <<"ok", "unsigned", "bad", "ok">>
MCExpires  == [i \in IntentIds |-> IF i = ask THEN 3 ELSE 4]

ShortLog     == <<send, ask>>
ShortVerdict == <<"ok", "ok">>
LateExpires  == [i \in IntentIds |-> 20]

MemberSymmetry == Permutations(Members)
=============================================================================
