--------------------------- MODULE DocumentSigning --------------------------
(***************************************************************************)
(* What the e-signature workflow of a document promises: people are asked  *)
(* to sign together, each of them signs or declines once, nobody is asked  *)
(* again while somebody still has to answer, and the verdict shown for the *)
(* document is always the one its signers make up.                         *)
(***************************************************************************)

CONSTANT People

Standings == {"none", "pending", "signed", "rejected"}
Verdicts == {"not_required", "pending", "signed", "rejected"}

VARIABLES
  standing,   \* person -> where the person stands
  verdict     \* what the document shows

signingVars == <<standing, verdict>>

VerdictOn(s) ==
  IF \A p \in People : s[p] = "none" THEN "not_required"
  ELSE IF \E p \in People : s[p] = "rejected" THEN "rejected"
  ELSE IF \A p \in People : s[p] \in {"none", "signed"} THEN "signed"
  ELSE "pending"

Becomes(s) == standing' = s /\ verdict' = VerdictOn(s)

SigningInit == /\ standing = [p \in People |-> "none"]
               /\ verdict = "not_required"

Ask(asked) ==
  /\ \A p \in People : standing[p] # "pending"
  /\ Becomes([p \in People |-> IF p \in asked THEN "pending" ELSE "none"])

Answer(p, answer) ==
  /\ standing[p] = "pending"
  /\ Becomes([standing EXCEPT ![p] = answer])

Clear == Becomes([p \in People |-> "none"])

SigningNext ==
  \/ \E asked \in (SUBSET People) \ {{}} : Ask(asked)
  \/ \E p \in People, answer \in {"signed", "rejected"} : Answer(p, answer)
  \/ Clear

SigningSpec == SigningInit /\ [][SigningNext]_signingVars
=============================================================================
