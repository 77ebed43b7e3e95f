---------------------------- MODULE MotionDetector ----------------------------
(***************************************************************************)
(* CellMotionDetector of internal/adapters/secondary/vmd: AnalyzeFrame and *)
(* SetConfig look up the state of a stream under the lock, release it, and *)
(* take it again to use what they found, which a Reset may have removed    *)
(* from the map in between.  Of a configuration its grid and its cooldown  *)
(* are told apart, of a frame whether enough cells differ from the         *)
(* baseline, and of a baseline the configuration it was taken under.       *)
(***************************************************************************)
EXTENDS Naturals

CONSTANTS
    Analysts,         \* goroutines that call the detector
    Feeds,            \* stream ids
    Configs, DefaultConfig,
    Grid, Cooldown,   \* of a configuration
    MaxStates, MaxResets, MaxTime    \* bounds of a run

ASSUME MotionAssumption ==
    /\ DefaultConfig \in Configs
    /\ Cooldown \in [Configs -> Nat \ {0}]
    /\ MaxStates \in Nat /\ MaxResets \in Nat /\ MaxTime \in Nat

VARIABLES
    stream_state,     \* d.streams: the state of each stream, 0 if it has none
    states_made,      \* states allocated so far
    motion,           \* every state
    call,             \* per goroutine: where it is, and on what
    event,            \* the last event that AnalyzeFrame returned
    clock,
    resets,           \* history: Resets of each stream
    in_force          \* history: what the calls so far have set

motionVars == <<stream_state, states_made, motion, call, event, clock, resets, in_force>>

NewState == [config |-> DefaultConfig, has_baseline |-> FALSE, baseline |-> DefaultConfig,
             active |-> FALSE, last |-> 0, start |-> 0]

\* A bug: a state is made without looking for one under the lock.
ReplaceState(a, s, next, config) ==
    /\ call[a].at = "out" /\ states_made < MaxStates
    /\ states_made' = states_made + 1
    /\ stream_state' = [stream_state EXCEPT ![s] = states_made + 1]
    /\ motion' = [motion EXCEPT ![states_made + 1] = NewState]
    /\ call' = [call EXCEPT ![a] = [at |-> next, state |-> stream_state'[s], feed |-> s,
                                    config |-> config, resets |-> resets[s]]]
    /\ UNCHANGED <<event, clock, resets, in_force>>

\* getOrCreateState, under the lock, by goroutine a for `next`.
GetOrCreateState(a, s, next, config) ==
    /\ call[a].at = "out"
    /\ \/ stream_state[s] # 0 /\ UNCHANGED <<stream_state, states_made, motion>>
       \/ /\ stream_state[s] = 0 /\ states_made < MaxStates
          /\ states_made' = states_made + 1
          /\ stream_state' = [stream_state EXCEPT ![s] = states_made + 1]
          /\ motion' = [motion EXCEPT ![states_made + 1] = NewState]
    /\ call' = [call EXCEPT ![a] = [at |-> next, state |-> stream_state'[s], feed |-> s,
                                    config |-> config, resets |-> resets[s]]]
    /\ UNCHANGED <<event, clock, resets, in_force>>

\* A configuration that does not validate, or a frame of the wrong size, is
\* refused before anything is looked up.
SetConfig(a, s, config) == GetOrCreateState(a, s, "config", config)
AnalyzeFrame(a, s) == GetOrCreateState(a, s, "frame", DefaultConfig)

Done(a) ==
    call' = [call EXCEPT ![a] = [@ EXCEPT !.at = "out", !.state = 0, !.config = DefaultConfig, !.resets = 0]]

\* The baseline is given up with the configuration it was taken under.
ApplyConfig(a) ==
    LET c == call[a]
    IN  /\ c.at = "config"
        /\ motion' = [motion EXCEPT ![c.state].config = c.config, ![c.state].has_baseline = FALSE]
        /\ in_force' = IF resets[c.feed] = c.resets THEN [in_force EXCEPT ![c.feed] = c.config] ELSE in_force
        /\ Done(a)
        /\ UNCHANGED <<stream_state, states_made, event, clock, resets>>

\* A frame too small for the grid changes nothing.
FrameTooSmall(a) ==
    /\ call[a].at = "frame"
    /\ Done(a)
    /\ UNCHANGED <<stream_state, states_made, motion, event, clock, resets, in_force>>

\* Without a baseline, or with one of another grid, the frame becomes it.
TakeBaseline(a) ==
    LET m == motion[call[a].state]
    IN  /\ call[a].at = "frame"
        /\ ~m.has_baseline \/ Grid[m.baseline] # Grid[m.config]
        /\ motion' = [motion EXCEPT ![call[a].state] =
                          [m EXCEPT !.has_baseline = TRUE, !.baseline = m.config, !.active = FALSE]]
        /\ event' = [active |-> FALSE, config |-> m.config, baseline |-> m.config]
        /\ Done(a)
        /\ UNCHANGED <<stream_state, states_made, clock, resets, in_force>>

\* The state after a frame in which there is motion, or there is none.
Moved(m) == [m EXCEPT !.last = clock, !.active = TRUE, !.start = IF m.active THEN m.start ELSE clock]
Rested(m) == [m EXCEPT !.active = m.active /\ clock - m.last < Cooldown[m.config]]

\* The frame is compared with the baseline, which moves towards it.
CompareFrame(a) ==
    LET m == motion[call[a].state]
    IN  /\ call[a].at = "frame"
        /\ m.has_baseline /\ Grid[m.baseline] = Grid[m.config]
        /\ \E after \in {Moved(m), Rested(m)} :
               /\ motion' = [motion EXCEPT ![call[a].state] = after]
               /\ event' = [active |-> after.active, config |-> m.config, baseline |-> m.baseline]
        /\ Done(a)
        /\ UNCHANGED <<stream_state, states_made, clock, resets, in_force>>

GetConfig(s) == IF stream_state[s] = 0 THEN DefaultConfig ELSE motion[stream_state[s]].config

Reset(s) ==
    /\ resets[s] < MaxResets
    /\ stream_state' = [stream_state EXCEPT ![s] = 0]
    /\ resets' = [resets EXCEPT ![s] = @ + 1]
    /\ in_force' = [in_force EXCEPT ![s] = DefaultConfig]
    /\ UNCHANGED <<states_made, motion, call, event, clock>>

TimeGoesBy ==
    /\ clock < MaxTime
    /\ clock' = clock + 1
    /\ UNCHANGED <<stream_state, states_made, motion, call, event, resets, in_force>>

MotionInit ==
    /\ stream_state = [s \in Feeds |-> 0] /\ states_made = 0
    /\ motion = [n \in 1 .. MaxStates |-> NewState]
    /\ call \in [Analysts -> [at : {"out"}, state : {0}, feed : Feeds, config : {DefaultConfig}, resets : {0}]]
    /\ event = [active |-> FALSE, config |-> DefaultConfig, baseline |-> DefaultConfig]
    /\ clock = 0
    /\ resets = [s \in Feeds |-> 0] /\ in_force = [s \in Feeds |-> DefaultConfig]

MotionNext ==
    \/ TimeGoesBy \/ \E s \in Feeds : Reset(s)
    \/ \E a \in Analysts :
           \/ \E s \in Feeds : AnalyzeFrame(a, s) \/ \E config \in Configs : SetConfig(a, s, config)
           \/ ApplyConfig(a) \/ FrameTooSmall(a) \/ TakeBaseline(a) \/ CompareFrame(a)

MotionSpec == MotionInit /\ [][MotionNext]_motionVars

-----------------------------------------------------------------------------
(* Properties                                                              *)

StateSet == [config : Configs, has_baseline : BOOLEAN, baseline : Configs, active : BOOLEAN,
             last : 0 .. MaxTime, start : 0 .. MaxTime]

MotionTypeOK ==
    /\ stream_state \in [Feeds -> 0 .. MaxStates] /\ states_made \in 0 .. MaxStates
    /\ motion \in [1 .. MaxStates -> StateSet]
    /\ call \in [Analysts -> [at : {"out", "config", "frame"}, state : 0 .. MaxStates, feed : Feeds,
                              config : Configs, resets : 0 .. MaxResets]]
    /\ event \in [active : BOOLEAN, config : Configs, baseline : Configs]
    /\ clock \in 0 .. MaxTime
    /\ resets \in [Feeds -> 0 .. MaxResets] /\ in_force \in [Feeds -> Configs]

\* What GetConfig answers is what the last SetConfig to come to an end has set,
\* unless a Reset has come since that call began: two calls that find no state
\* never make one each, and a call that was overtaken by a Reset cannot undo
\* what was set after it.  And motion is only ever seen against a baseline taken
\* under the configuration in force (cell_motion_detector.go:42-92, 147-151).
ConfigsTakeEffect ==
    /\ \A s \in Feeds : GetConfig(s) = in_force[s]
    /\ event.active => event.baseline = event.config
=============================================================================
