----------------------------- MODULE MCWorkspace ---------------------------
(***************************************************************************)
(* Five parts of a workspace that share no row, explored one after the     *)
(* other in a single run: who has access to it, archives of its documents, *)
(* its event histories, the upkeep of its tables, and the panels of its    *)
(* pages.  A behaviour is about one of them, and s1, s2, ... are its       *)
(* variables; those it has no use for are None, and WorkspaceAccess stays  *)
(* as it began while another part runs.                                    *)
(***************************************************************************)
EXTENDS WorkspaceAccess, Naturals, Sequences, FiniteSets, TLC

CONSTANTS
    l1, l2,
    Docs, Names, base, Requests, LinkRequests, Fetches, Capacity, MaxFiles, MaxVersions, MaxChanges,
    Categories, All, None, PageLimit, MaxKey, MaxRequests,
    Instances, Connections, Steps, Sweep, Limit, Window, MaxTime, MaxCalls, MaxPasses, MaxFaults,
    Panels, PanelRows, Clicks, MaxEdits, MaxClicks, MaxElsewhere, MaxErrors

ASSUME ArchivesAssumption == IsFiniteSet(Requests) /\ Capacity \in Nat
\* A name is a base and the numbers after it.
ASSUME NamesAssumption ==
    /\ IsFiniteSet(Docs) /\ MaxVersions \in Nat \ {0}
    /\ \A d \in Docs : Names[d] \in {Names[d][1]} \X Seq(Nat)
ASSUME UpkeepAssumption ==
    Steps \in Nat /\ Limit \in Nat /\ Window \in Nat \ {0} /\ None \notin Connections
ASSUME EventsAssumption ==
    MaxKey \in Nat /\ PageLimit \in Nat \ {0} /\ None \notin Categories \cup (1..MaxKey)
ASSUME PanelsAssumption == MaxEdits \in Nat \ {0} /\ None \notin PanelRows \cup Clicks

VARIABLES
    about,      \* the part this behaviour is about
    s1, s2, s3, s4, s5, s6, s7, s8, s9, s10, s11, s12, s13, s14, s15, s16, s17, s18, s19

\* One link that dies by revocation alone, one that has other checks too.
Kinds == [l \in Links |-> IF l = l1 THEN "share" ELSE "request"]

\* Every document has the name of the text an archive adds on its own.
Alike == [d \in Docs |-> <<base, <<>>>>]

Archives == INSTANCE ZipArchives
    WITH Name <- Names, NotIncluded <- base, Links <- LinkRequests, docs <- s1, scan <- s2,
         stored <- s3, request <- s4, inUse <- s5, logged <- s6, changes <- s7
Events == INSTANCE EventPages
    WITH Requests <- Fetches, source <- s1, reader <- s2, rows <- s3, dropped <- s4, export <- s5,
         filter <- s6, list <- s7, cursor <- s8, loading <- s9, loadingMore <- s10,
         request <- s11, asked <- s12, crossed <- s13
Upkeep == INSTANCE Maintenance
    WITH MaxRequests <- MaxCalls, pass <- s1, holder <- s2, depth <- s3, broken <- s4,
         counter <- s5, admitted <- s6, clock <- s7, requests <- s8, passes <- s9, faults <- s10
Panel == INSTANCE Panels
    WITH Kinds <- Panels, Rows <- PanelRows, Tasks <- Clicks, MaxFaults <- MaxErrors,
         kind <- s1, rows <- s2, list <- s3, busy <- s4, dialog <- s5, secret <- s6, open <- s7,
         details <- s8, task <- s9, clock <- s10, clicks <- s11, elsewhere <- s12, faults <- s13,
         latest <- s14, known <- s15, owed <- s16, wiped <- s17, crossed <- s18, mistaken <- s19

state == <<s1, s2, s3, s4, s5, s6, s7, s8, s9, s10, s11, s12, s13, s14, s15, s16, s17, s18, s19>>

PartsInit ==
    /\ Init
    /\ \/ /\ about = "access"
          /\ s1 = None /\ s2 = None /\ s3 = None /\ s4 = None /\ s5 = None /\ s6 = None
          /\ s7 = None /\ s8 = None /\ s9 = None /\ s10 = None /\ s11 = None /\ s12 = None
          /\ s13 = None /\ s14 = None /\ s15 = None /\ s16 = None /\ s17 = None /\ s18 = None
          /\ s19 = None
       \/ /\ about = "archives" /\ Archives!Init
          /\ s8 = None /\ s9 = None /\ s10 = None /\ s11 = None /\ s12 = None /\ s13 = None
          /\ s14 = None /\ s15 = None /\ s16 = None /\ s17 = None /\ s18 = None /\ s19 = None
       \/ /\ about = "events" /\ Events!Init
          /\ s14 = None /\ s15 = None /\ s16 = None /\ s17 = None /\ s18 = None /\ s19 = None
       \/ /\ about = "upkeep" /\ Upkeep!Init
          /\ s11 = None /\ s12 = None /\ s13 = None /\ s14 = None /\ s15 = None /\ s16 = None
          /\ s17 = None /\ s18 = None /\ s19 = None
       \/ /\ about = "panels" /\ Panel!Init

PartsNext ==
    \/ /\ about = "access" /\ Next /\ UNCHANGED <<about, state>>
    \/ /\ about = "archives" /\ Archives!Next
       /\ UNCHANGED <<about, vars, s8, s9, s10, s11, s12, s13, s14, s15, s16, s17, s18, s19>>
    \/ /\ about = "events" /\ Events!Next
       /\ UNCHANGED <<about, vars, s14, s15, s16, s17, s18, s19>>
    \/ /\ about = "upkeep" /\ Upkeep!Next
       /\ UNCHANGED <<about, vars, s11, s12, s13, s14, s15, s16, s17, s18, s19>>
    \/ /\ about = "panels" /\ Panel!Next
       /\ UNCHANGED <<about, vars>>

PartsSpec == PartsInit /\ [][PartsNext]_<<about, vars, state>>

\* One symmetry serves all parts, each taking the model values of Handlers and of Invites for sets
\* of its own whose members are interchangeable.
PartsSymmetry == Permutations(Invites) \cup Permutations(Handlers)

\* Archives return the slots they took, whoever fails or leaves: ZipArchives!SlotsExact.
SlotsExact == about = "archives" => Archives!SlotsExact

\* Archives hold what was cleared, recorded and planned, at paths apart: ZipArchives!ZipSound.
ZipSound == about = "archives" => Archives!ZipSound

\* A history is read whole while it is written and dropped: EventPages!HistoryRead.
HistoryRead == about = "events" => Events!HistoryRead

\* Passes exclude each other, and the sweep takes no window that counts: Maintenance!PassesSound.
PassesSound == about = "upkeep" => Upkeep!PassesSound

\* A panel lists its own changes, keeps a secret till it is dismissed, and shows details under the
\* row they are about: Panels!PanelsSound.
PanelsSound == about = "panels" => Panel!PanelsSound

=============================================================================
