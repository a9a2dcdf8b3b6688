------------------------------ MODULE AlertState ------------------------------
(***************************************************************************)
(* The pure alert-state layer (alert_engine/state.py): how one sealed      *)
(* AlertEvent is classified against explicit state and what state an       *)
(* accepted one leaves behind.  No I/O, no clock.                          *)
(*                                                                         *)
(* An alert is a constant; its content (subject, code, the pattern of a    *)
(* market transition) is given by functions, because an AlertEvent is      *)
(* sealed: its id is a hash of exactly that content.                       *)
(***************************************************************************)
EXTENDS Integers, Sequences, SequencesExt

CONSTANTS
    Alert,        \* sealed AlertEvents, identified with their alert_id
    Subject,      \* subject keys: setup:<assessment_id> or symbol:<SYMBOL>
    Setup,        \* those of kind setup
    Pattern,      \* market patterns
    None,         \* Python's None
    SubjectOf,    \* [Alert -> Subject]
    CodeOf,       \* [Alert -> Code]
    PatternOf     \* [Alert -> Pattern], read for market_pattern_changed only

Code == {"setup_available", "setup_invalidated", "market_pattern_changed"}

(* A setup alert has a setup subject, a pattern change a symbol subject.   *)
ASSUME AlertsAreSealed ==
    /\ Setup \subseteq Subject
    /\ SubjectOf \in [Alert -> Subject]
    /\ CodeOf \in [Alert -> Code]
    /\ PatternOf \in [Alert -> Pattern]
    /\ \A a \in Alert :
         SubjectOf[a] \in Setup <=> CodeOf[a] # "market_pattern_changed"

ASSUME NoneIsFresh == None \notin Alert /\ None \notin Pattern

(* AlertSubjectState without the fields that are functions of the subject  *)
(* key (kind, symbol, assessment_id) or of last_alert_id (last_source_id,  *)
(* last_as_of).                                                            *)
SubjectState == [terminal          : BOOLEAN,
                 terminal_alert_id : Alert \cup {None},
                 last_alert_id     : Alert,
                 current_pattern   : Pattern \cup {None}]

ASSUME NoStateIsFresh == None \notin SubjectState

(* validated_subject_state: what a stored state must satisfy to be read    *)
(* back.  A state that fails it makes every later read of its subject fail.*)
ValidSubjectState(s, st) ==
    /\ st \in SubjectState
    /\ st.terminal <=> st.terminal_alert_id # None
    /\ st.terminal => s \in Setup
    /\ st.current_pattern # None => s \notin Setup

Fresh == [terminal |-> FALSE, terminal_alert_id |-> None, current_pattern |-> None]

(* Mutant: an invalidation does not record its own id.                     *)
NextState_NoTerminalId(a, previous) ==
    LET base == IF previous = None THEN Fresh ELSE previous IN
    [terminal          |-> base.terminal \/ CodeOf[a] = "setup_invalidated",
     terminal_alert_id |-> base.terminal_alert_id,
     last_alert_id     |-> a,
     current_pattern   |-> base.current_pattern]

(* _next_state: the state an accepted alert leaves, from the previous one  *)
(* (or None) and the event alone.                                          *)
NextState(a, previous) ==
    LET base == IF previous = None THEN Fresh ELSE previous IN
    [terminal          |-> base.terminal \/ CodeOf[a] = "setup_invalidated",
     terminal_alert_id |-> IF CodeOf[a] = "setup_invalidated"
                             THEN a ELSE base.terminal_alert_id,
     last_alert_id     |-> a,
     current_pattern   |-> IF CodeOf[a] = "market_pattern_changed"
                             THEN PatternOf[a] ELSE base.current_pattern]

IsTerminal(st) == st # None /\ st.terminal

(* decide: the documented precedence duplicate, terminal_suppressed, new.  *)
Decide(a, previous, already_seen) ==
    IF already_seen THEN "duplicate"
    ELSE IF IsTerminal(previous) THEN "terminal_suppressed"
    ELSE "new"

-------------------------------------------------------------------------------
(* replay: fold a caller-ordered sequence of alerts into seen ids and      *)
(* subject states.                                                         *)
Empty == [seen |-> {}, subjects |-> [s \in Subject |-> None]]

ReplayStep(state, a) ==
    LET s == SubjectOf[a] IN
    IF Decide(a, state.subjects[s], a \in state.seen) = "new"
      THEN [seen     |-> state.seen \cup {a},
            subjects |-> [state.subjects EXCEPT ![s] = NextState(a, @)]]
      ELSE state

Replay(alerts) == FoldLeft(ReplayStep, Empty, alerts)
===============================================================================
