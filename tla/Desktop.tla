------------------------------- MODULE Desktop -------------------------------
(***************************************************************************)
(* What the programs on the user's machine keep for the user: the imported *)
(* games, as files (ImportPgn) and in a database (ImportDatabase), the     *)
(* snapshots on record (IncrementalUpdates), the privacy stores            *)
(* (PrivacyGates), the deletion of a collection (PrivacyDelete) and the    *)
(* approval gate (ApprovalGate).  They share no state and run side by      *)
(* side.                                                                   *)
(***************************************************************************)
EXTENDS ImportPgn, ImportDatabase, IncrementalUpdates, PrivacyGates,
        PrivacyDelete, ApprovalGate

DesktopSpec ==
    ImportSpec /\ DbSpec /\ UpdateSpec /\ GatesSpec /\ DeleteSpec /\ GateSpec
DesktopConstants ==
    /\ ImportConstants /\ DbConstants /\ UpdateConstants
    /\ GatesConstants /\ DeleteConstants

\* What is on record was stored, or ingested, before: of a run into the database
\* every game it counts, of an update the snapshot with its hash.
RecordedTrue == RecordedIsStored /\ RecordsTrue

\* The first sight of a game stays, what is on record is not recorded again, and
\* what was erased does not come back.
NothingTakenBack == FirstSeenStays /\ RecordedOnce /\ Irreversible

\* What is open was opened by a consent for what was shown, and its history is a
\* way back; data of a deletion that failed is not forgotten; an approval commits
\* once, what was approved, and by authority of a user.
UserDecides ==
    /\ OpenAsShown
    /\ WayBack
    /\ NothingForgotten
    /\ OneCommitPerApproval
    /\ AuthorityFromUser
=============================================================================
