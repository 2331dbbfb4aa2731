--------------------------- MODULE RenderApproval ---------------------------
(***************************************************************************)
(* What the final gate of media assembly promises, with no worker, no job  *)
(* and no crash in it: a revision is previewed, the user approves that     *)
(* preview, the user orders the final render, and only then is a final     *)
(* video of that revision made.  AssemblyRender implements it.             *)
(***************************************************************************)
EXTENDS Naturals

CONSTANT Revisions

VARIABLES
    previewed,   \* revisions a preview exists of
    approved,    \* revisions whose preview the user approved
    ordered,     \* revisions whose final render the user confirmed
    rendered     \* revisions a final video exists of

approval == <<previewed, approved, ordered, rendered>>

ApprovalInit ==
    /\ previewed = {}
    /\ approved = {}
    /\ ordered = {}
    /\ rendered = {}

MakePreview(r) ==
    /\ previewed' = previewed \cup {r}
    /\ UNCHANGED <<approved, ordered, rendered>>

Approve(r) ==
    /\ r \in previewed
    /\ approved' = approved \cup {r}
    /\ UNCHANGED <<previewed, ordered, rendered>>

Order(r) ==
    /\ r \in approved
    /\ ordered' = ordered \cup {r}
    /\ UNCHANGED <<previewed, approved, rendered>>

MakeFinal(r) ==
    /\ r \in ordered
    /\ rendered' = rendered \cup {r}
    /\ UNCHANGED <<previewed, approved, ordered>>

ApprovalNext ==
    \E r \in Revisions : MakePreview(r) \/ Approve(r) \/ Order(r) \/ MakeFinal(r)

ApprovalSpec == ApprovalInit /\ [][ApprovalNext]_approval

=============================================================================
