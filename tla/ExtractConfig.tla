---------------------------- MODULE ExtractConfig ----------------------------
(***************************************************************************)
(* extractConfiguration (internal/backup/bundle.go): the members of a      *)
(* verified bundle are copied to a directory next to the destination,      *)
(* which is then renamed.  There is no lock: extractions with the same     *)
(* destination run side by side, and other programs use the file system.   *)
(*                                                                         *)
(* os.Rename is two system calls.  It refuses when Lstat finds a directory *)
(* at the destination; rename(2) refuses unless nothing or an empty        *)
(* directory is there.                                                     *)
(***************************************************************************)
EXTENDS Naturals

CONSTANTS Extractors, Files,
          Absent, Empty, Foreign,  \* what else can be at the destination
          NoStaging,               \* no staging directory
          MaxOthers                \* bound: what other programs do

ASSUME ExtractConfigAssumption ==
  /\ Extractors \cap {Absent, Empty, Foreign} = {}
  /\ Foreign \notin {Absent, Empty} /\ (\A S \in SUBSET Files : NoStaging # S)
  /\ MaxOthers \in Nat

VARIABLES dest,      \* what is at the destination: its owner and members
          staging,   \* extraction -> members in its staging directory, or NoStaging
          pc, outcome,
          others,    \* what other programs did
          placed     \* history: extractions that renamed

extractVars == <<dest, staging, pc, outcome, others, placed>>

Directory(owner, members) == [owner |-> owner, members |-> members]

ExtractInit ==
  /\ \E owner \in {Absent, Empty, Foreign} : dest = Directory(owner, {})
  /\ staging = [e \in Extractors |-> NoStaging]
  /\ pc = [e \in Extractors |-> "start"]
  /\ outcome = [e \in Extractors |-> "pending"]
  /\ others = 0 /\ placed = {}

Others ==
  /\ others < MaxOthers /\ others' = others + 1
  /\ \E owner \in {Absent, Empty, Foreign} : dest' = Directory(owner, {})
  /\ UNCHANGED <<staging, pc, outcome, placed>>

Proceeds(e, to) == pc' = [pc EXCEPT ![e] = to] /\ UNCHANGED <<outcome, others>>

CheckAbsent(e) ==
  /\ pc[e] = "start" /\ UNCHANGED <<dest, staging, placed>>
  /\ Proceeds(e, IF dest.owner = Absent THEN "stage" ELSE "refused")

MakeStaging(e) ==
  /\ pc[e] = "stage" /\ Proceeds(e, "copy") /\ UNCHANGED <<dest, placed>>
  /\ staging' = [staging EXCEPT ![e] = {}]

CopyMember(e) ==
  /\ pc[e] = "copy" /\ Proceeds(e, "copy") /\ UNCHANGED <<dest, placed>>
  /\ \E m \in Files \ staging[e] : staging' = [staging EXCEPT ![e] = @ \cup {m}]

\* Any error of copyMember ends the extraction.
AnythingCopied(e) == TRUE
AllCopied(e) == staging[e] = Files

LstatDest(e) ==
  /\ pc[e] = "copy" /\ AllCopied(e) /\ UNCHANGED <<dest, staging, placed>>
  /\ Proceeds(e, IF dest.owner = Absent THEN "rename" ELSE "refused")

RemovedFirst(owner) == TRUE
Replaceable(owner) == owner \in {Absent, Empty}

Rename(e) ==
  /\ pc[e] = "rename"
  /\ IF Replaceable(dest.owner)
     THEN /\ dest' = Directory(e, staging[e]) /\ placed' = placed \cup {e}
          /\ staging' = [staging EXCEPT ![e] = NoStaging] /\ Proceeds(e, "renamed")
     ELSE Proceeds(e, "refused") /\ UNCHANGED <<dest, staging, placed>>

\* A read or write fails, the bundle's CRC included, or the context is canceled.
CopyFails(e) ==
  /\ pc[e] \in {"start", "stage", "copy", "rename"} /\ Proceeds(e, "refused")
  /\ UNCHANGED <<dest, staging, placed>>

\* The deferred RemoveAll comes before the caller hears of the result.
KeepsStaging(e) == staging
DropsStaging(e) == [staging EXCEPT ![e] = NoStaging]

Cleanup(e) ==
  /\ pc[e] \in {"renamed", "refused"}
  /\ staging' = DropsStaging(e) /\ pc' = [pc EXCEPT ![e] = "done"]
  /\ outcome' = [outcome EXCEPT ![e] = IF pc[e] = "renamed" THEN "ok" ELSE "error"]
  /\ UNCHANGED <<dest, others, placed>>

\* SIGKILL, at any point: nothing is cleaned up.
Crash(e) ==
  /\ pc[e] \notin {"done", "dead"} /\ Proceeds(e, "dead") /\ UNCHANGED <<dest, staging, placed>>

AllReturned == (\A e \in Extractors : pc[e] \in {"done", "dead"}) /\ UNCHANGED extractVars

ExtractNext == \/ Others \/ AllReturned
        \/ \E e \in Extractors : \/ CheckAbsent(e) \/ MakeStaging(e) \/ CopyMember(e)
                                 \/ LstatDest(e) \/ Rename(e) \/ CopyFails(e) \/ Cleanup(e)
                                 \/ Crash(e)

ExtractSpec == ExtractInit /\ [][ExtractNext]_extractVars

-----------------------------------------------------------------------------
(* Properties.                                                             *)

ExtractTypeOK ==
  /\ dest \in [owner : Extractors \cup {Absent, Empty, Foreign}, members : SUBSET Files]
  /\ pc \in [Extractors -> {"start", "stage", "copy", "rename", "renamed", "refused",
                           "done", "dead"}]
  /\ staging \in [Extractors -> (SUBSET Files) \cup {NoStaging}]
  /\ outcome \in [Extractors -> {"pending", "ok", "error"}]
  /\ placed \subseteq Extractors /\ others \in 0..MaxOthers

(***************************************************************************)
(* When an extraction has returned, its staging directory, which may hold  *)
(* private keys, is gone, however it ended (bundle.go:265).                *)
(***************************************************************************)
NothingStaged == \A e \in Extractors : outcome[e] # "pending" => staging[e] = NoStaging

(***************************************************************************)
(* A directory an extraction put at the destination has all members: no    *)
(* failed, canceled or killed extraction is exposed (bundle.go:260).       *)
(***************************************************************************)
NeverPartial == dest.owner \in Extractors => dest.members = Files

(***************************************************************************)
(* Extractions implement AtomicDirectory: of several with one destination  *)
(* one wins and is the one to report success, and nothing that is not an   *)
(* empty directory is replaced (bundle.go:257-259, 284).                   *)
(***************************************************************************)
Abstract == INSTANCE AtomicDirectory WITH dest <- dest.owner

PlacesAtomically == Abstract!Spec
=============================================================================
