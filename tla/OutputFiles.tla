------------------------------- MODULE OutputFiles -------------------------------
(***************************************************************************)
(* How the snapshot, options, setup and evaluation commands put sealed     *)
(* files in place: every target is looked at, every text is staged in a    *)
(* temporary file and synced, then linked (no-clobber) or, with            *)
(* --overwrite, renamed over the target; a failed commit is rolled back.   *)
(***************************************************************************)
EXTENDS Integers, Sequences, FiniteSets, SequencesExt

CONSTANTS
    Writers,     \* processes of the commands
    Paths,
    Outputs,     \* a run's targets in order: two for a setup with its invalidation, one otherwise
    Overwrite,   \* the runs started with --overwrite
    NoRun        \* no one

OutputsAssumption == /\ Outputs \in [Writers -> Seq(Paths) \ {<<>>}]
                     /\ Overwrite \subseteq Writers /\ NoRun \notin Writers

VARIABLES
    files,       \* path -> the run whose text it holds, or NoRun
    temps,       \* run -> the targets with a temporary file beside them
    committed,   \* run -> the targets linked or replaced and not yet rolled back
    at           \* run -> where it is
outputVars == <<files, temps, committed, at>>

OutputInit == /\ files = [p \in Paths |-> NoRun]
              /\ temps = [r \in Writers |-> {}] /\ committed = [r \in Writers |-> <<>>]
              /\ at = [r \in Writers |-> "start"]

Clobbers(r) == r \notin Overwrite /\ \E p \in Range(Outputs[r]) : files[p] # NoRun
Move(r, to) == at' = [at EXCEPT ![r] = to]

CheckTargets(r) == /\ at[r] = "start" /\ Move(r, IF Clobbers(r) THEN "failed" ELSE "staging")
                   /\ UNCHANGED <<files, temps, committed>>

\* _temp for the next target: mkstemp, write, fsync; its own failure leaves no temporary file of its own.
Stage(r) ==
    /\ at[r] = "staging" /\ UNCHANGED <<files, committed>>
    /\ \/ LET p == Outputs[r][Cardinality(temps[r]) + 1]
          IN /\ temps' = [temps EXCEPT ![r] = @ \cup {p}]
             /\ Move(r, IF Cardinality(temps[r]) + 1 = Len(Outputs[r]) THEN "committing" ELSE "staging")
       \/ Move(r, "rollback") /\ UNCHANGED temps

\* Mutant: a target counts as committed before it is linked.
Commit_CountsFirst(r) ==
    /\ at[r] = "committing" /\ UNCHANGED temps
    /\ LET p == Outputs[r][Len(committed[r]) + 1] IN
       /\ committed' = [committed EXCEPT ![r] = Append(@, p)]
       /\ \/ /\ r \in Overwrite \/ files[p] = NoRun
             /\ files' = [files EXCEPT ![p] = r]
             /\ Move(r, IF Len(committed[r]) + 1 = Len(Outputs[r]) THEN "written" ELSE "committing")
          \/ Move(r, "rollback") /\ UNCHANGED files

\* os.replace takes the temporary file away; os.link leaves it and refuses a target that exists.
Commit(r) ==
    /\ at[r] = "committing"
    /\ LET p == Outputs[r][Len(committed[r]) + 1]
           put == /\ files' = [files EXCEPT ![p] = r]
                  /\ committed' = [committed EXCEPT ![r] = Append(@, p)]
                  /\ temps' = IF r \in Overwrite THEN [temps EXCEPT ![r] = @ \ {p}] ELSE temps
                  /\ Move(r, IF Len(committed[r]) + 1 = Len(Outputs[r]) THEN "written" ELSE "committing")
           refused == Move(r, "rollback") /\ UNCHANGED <<files, temps, committed>>
       IN \/ (r \in Overwrite \/ files[p] = NoRun) /\ put
          \/ refused

\* except OutputError: unlink by name what this call linked; never with --overwrite.
Rollback(r) ==
    /\ at[r] = "rollback" /\ r \notin Overwrite /\ committed[r] # <<>>
    /\ files' = [files EXCEPT ![Head(committed[r])] = NoRun]
    /\ committed' = [committed EXCEPT ![r] = Tail(@)]
    /\ UNCHANGED <<temps, at>>

\* finally: the temporary files go, whatever happened.
Cleanup(r) ==
    /\ at[r] = "written" \/ (at[r] = "rollback" /\ (r \in Overwrite \/ committed[r] = <<>>))
    /\ temps' = [temps EXCEPT ![r] = {}]
    /\ Move(r, IF at[r] = "written" THEN "done" ELSE "failed")
    /\ UNCHANGED <<files, committed>>

\* The process is killed between two system calls.
Crash(r) == /\ at[r] \in {"staging", "committing", "rollback", "written"} /\ Move(r, "crashed")
            /\ UNCHANGED <<files, temps, committed>>

OutputNext == \E r \in Writers : CheckTargets(r) \/ Stage(r) \/ Commit(r) \/ Rollback(r) \/ Cleanup(r) \/ Crash(r)

(* A command that reports failure leaves nothing of its own (all or none) unless it overwrites; one that reports
   success put every file in place, and they stay whole: a file of it is gone only because an overwriting run
   replaced it, or because it had itself overwritten what another run then rolled back.  No temporary file
   outlives a command that ended, and two runs that may not overwrite never both succeed at one path. *)
OutputsSound ==
    \A r \in Writers :
      /\ at[r] \in {"done", "failed"} => temps[r] = {}
      /\ at[r] = "failed" /\ r \notin Overwrite => \A p \in Paths : files[p] # r
      /\ at[r] = "done" => \A p \in Range(Outputs[r]) :
           \/ files[p] = r \/ files[p] \in Overwrite
           \/ r \in Overwrite /\ \E other \in Writers \ Overwrite : at[other] \in {"rollback", "failed", "crashed"} /\ p \in Range(Outputs[other])
      /\ \A q \in Writers \ Overwrite : at[r] = "done" /\ at[q] = "done" /\ r \notin {q} \cup Overwrite =>
           Range(Outputs[r]) \cap Range(Outputs[q]) = {}
==================================================================================
