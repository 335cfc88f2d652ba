------------------------------ MODULE Follower ------------------------------
(***************************************************************************)
(* What the scanner promises of its position on the chain, without saying  *)
(* how a tick is carried out.  It stands at a block and has scanned each   *)
(* account up to some height.  It goes on only along a chain that holds    *)
(* the block it stands at, and straight to the tip; it goes back only when *)
(* the node's chain has lost that block, and by a bounded number of        *)
(* blocks; it vouches for an account only while it stands at the tip.      *)
(***************************************************************************)
EXTENDS GrinNode

CONSTANT Depth   \* how far below the tip it resumes

VARIABLES
  at,       \* height and hash of the block it stands at
  reached   \* account -> the height it is scanned up to

Position == <<at, reached>>

FollowerInit ==
  /\ head \in Chain
  /\ at.height = 0
  /\ reached = [a \in {} |-> 0]

OnCourse == at.height = 0 \/ Contains(head, at.height, at.hash)

HeadMoves == \E c \in Chain : NewHead(c) /\ UNCHANGED Position

Follow == OnCourse /\ at' = TipOf(head) /\ UNCHANGED <<head, reached>>

Reach(a) ==
  /\ at = TipOf(head)
  /\ reached' = [b \in DOMAIN reached |-> IF b = a THEN at.height ELSE reached[b]]
  /\ UNCHANGED <<head, at>>

(* Some accounts are taken back, none ahead. *)
TakeBack(S) ==
  /\ DOMAIN reached' = DOMAIN reached
  /\ \A b \in DOMAIN reached : /\ reached'[b] <= reached[b]
                               /\ b \notin S => reached'[b] = reached[b]
  /\ UNCHANGED <<head, at>>

(* The block is lost: scan again from below the fork, then stand there.    *)
Withdraw == ~ OnCourse /\ TakeBack(DOMAIN reached)

Retreat ==
  /\ ~ OnCourse
  /\ \E height \in 0 .. Tip[head] :
       /\ height + Depth >= Tip[head]
       /\ at' = [height |-> height, hash |-> Header[head][height].hash]
  /\ UNCHANGED <<head, reached>>

(* Clients join, at a height of theirs, and have an account scanned again. *)
Join(a) ==
  /\ a \notin DOMAIN reached
  /\ DOMAIN reached' = DOMAIN reached \cup {a}
  /\ \A b \in DOMAIN reached : reached'[b] = reached[b]
  /\ UNCHANGED <<head, at>>

ScanAgain(a) == TakeBack({a})

FollowerNext ==
  \/ HeadMoves \/ Follow \/ Withdraw \/ Retreat
  \/ \E a \in Account : Reach(a) \/ Join(a) \/ ScanAgain(a)

FollowerSpec == FollowerInit /\ [][FollowerNext]_<<head, Position>>
=============================================================================
