------------------------------ MODULE MCBrowser ----------------------------
(***************************************************************************)
(* The job queue with every fault, and two parts of the browser that talk  *)
(* to the API alone: the documents page, and the client of the direct      *)
(* uploads.  They share no state and are explored one after the other in a *)
(* single run: a behaviour is about one of them, s1, s2, ... are the       *)
(* variables of the last two, and JobQueue stays as it began while they    *)
(* run.                                                                    *)
(***************************************************************************)
EXTENDS MCJobQueue

CONSTANTS
    d1, d2, r1, r2, None,
    Docs, CreatedAt, Later, Scanned, Mine, Owner, PageSize, MaxRequests, MaxHandlers, MaxDeletions,
    MaxTroubles,
    Parts, SignBatch, PartAttempts, Runs, MaxFailures

\* No two documents are created at the same moment: the list breaks ties by the id.
ASSUME PageAssumption ==
    /\ IsFiniteSet(Docs) /\ PageSize \in Nat \ {0} /\ CreatedAt \in [Docs -> Nat \ {0}]
    /\ \A d, e \in Docs : CreatedAt[d] = CreatedAt[e] => d = e
\* Parts are numbered, and no run of the uploader is none.
ASSUME UploadsAssumption == Parts \subseteq Nat /\ None \notin Runs

VARIABLES
    about,      \* the part this behaviour is about
    s1, s2, s3, s4, s5, s6, s7, s8, s9, s10, s11, s12, s13, s14   \* its variables

\* The document that is there from the start is the older one.
OlderFirst == [d \in Docs |-> IF d = d1 THEN 1 ELSE 2]

Page == INSTANCE DocumentsPage
    WITH place <- s1, deletedAt <- s2, scanning <- s3, view <- s4,
         shown <- s5, page <- s6, selected <- s7, left <- s8, requests <- s9, handlers <- s10,
         mixed <- s11, clock <- s12, changes <- s13, faults <- s14
Uploader == INSTANCE BrowserUploads
    WITH MaxFaults <- MaxFailures, uploads <- s1, saved <- s2, run <- s3, worker <- s4,
         control <- s5, issue <- s6, deletes <- s7, stranded <- s8, faults <- s9

state == <<s1, s2, s3, s4, s5, s6, s7, s8, s9, s10, s11, s12, s13, s14>>

PartsInit ==
    /\ Init
    /\ \/ /\ about = "queue"
          /\ s1 = None /\ s2 = None /\ s3 = None /\ s4 = None /\ s5 = None /\ s6 = None
          /\ s7 = None /\ s8 = None /\ s9 = None /\ s10 = None /\ s11 = None /\ s12 = None
          /\ s13 = None /\ s14 = None
       \/ /\ about = "page" /\ Page!Init
       \/ /\ about = "uploads" /\ Uploader!Init
          /\ s10 = None /\ s11 = None /\ s12 = None /\ s13 = None /\ s14 = None

PartsNext ==
    \/ /\ about = "queue" /\ Next /\ UNCHANGED <<about, state>>
    \/ /\ about = "page" /\ Page!Next /\ UNCHANGED <<about, vars>>
    \/ /\ about = "uploads" /\ Uploader!Next
       /\ UNCHANGED <<about, vars, s10, s11, s12, s13, s14>>

PartsSpec == PartsInit /\ [][PartsNext]_<<about, vars, state>>

\* The page lists what the API would, keeps ticked what it shows, and shows one's own changes:
\* DocumentsPage!PageExact, SelectionOnScreen and OwnChangesShown.
PageSound ==
    about = "page" => Page!PageExact /\ Page!SelectionOnScreen /\ Page!OwnChangesShown

\* An upload is completed when the API has every part of it, and none is left behind unknown:
\* BrowserUploads!AskedWhole and NothingStranded.
UploaderSound == about = "uploads" => Uploader!AskedWhole /\ Uploader!NothingStranded

=============================================================================
