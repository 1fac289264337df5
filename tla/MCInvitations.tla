--------------------------- MODULE MCInvitations ---------------------------
(***************************************************************************)
(* Small instances of Invitations for TLC.                                 *)
(***************************************************************************)
EXTENDS Invitations, TLC

CONSTANTS u1, i1, i2, k1, k2, k3, c1, c2, g1, g2

Service == {"invite", "reissue", "revoke", "activate"}
AllOps == [c \in Callers |-> Service]

\* The writes inside invite's handler.
InviteWrites == {"create", "grant", "record"}
AllWrites == InviteWrites \cup
  {"issue", "compensate", "update", "revokeOld", "revokeCap", "link", "write"}

CapabilitySymmetry == Permutations(Capabilities)

\* Where all callers use all operations they are alike.
Symmetry == {f @@ g : f \in CapabilitySymmetry, g \in Permutations(Callers)}
=============================================================================
