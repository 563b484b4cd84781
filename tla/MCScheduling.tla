---------------------------- MODULE MCScheduling ----------------------------
(***************************************************************************)
(* What a main loop runs: the scheduler's update, the calls of a signal    *)
(* and the polling of signal_switches, one of them in a behaviour.  The    *)
(* documentation of signal_switch asks for a single instance, which those  *)
(* are that come one after the other ("switch"); several may be alive at   *)
(* once in "switches".                                                     *)
(***************************************************************************)
EXTENDS Scheduler, Signals

VARIABLE loop               \* the one that runs

LoopInit == loop \in {"scheduler", "signal", "switch", "switches"} /\ Init /\ SignalsInit

RunScheduler == loop = "scheduler" /\ Next /\ UNCHANGED <<loop, signalVars>>

RunSignal == loop = "signal" /\ SignalNext /\ UNCHANGED <<loop, swVars, vars>>

RunSwitch ==
    /\ loop \in {"switch", "switches"} /\ SwitchNext /\ UNCHANGED <<loop, vars>>
    /\ loop = "switch" => Len(switches') <= 1

LoopNext == RunScheduler \/ RunSignal \/ RunSwitch

\* The main loop polls a switch again and again, and a member function of it
\* that began runs to its end; so does an update.
SwitchPolled == WF_signalVars(loop \in {"switch", "switches"} /\ SwitchPoll)
SwitchGoesOn == WF_signalVars(loop \in {"switch", "switches"} /\ SwitchGoOn)
UpdateGoesOn == WF_vars(loop = "scheduler" /\ Step)

LoopSpec ==
    /\ LoopInit /\ [][LoopNext]_<<loop, vars, signalVars>>
    /\ UpdateGoesOn /\ SwitchPolled /\ SwitchGoesOn

\* A signal calls every slot that is connected, in order, and none twice;
\* every key disconnects the slot it was given for, whatever was connected,
\* bound, moved and disconnected before (signal::connect, bind, operator()).
SignalsReachTheirSlots == KeysNameTheirSlots /\ CallsReachEverySlot

\* Whenever the OS signals come, the last switch to go puts the handlers back that
\* the first one found, and a single switch, also one that takes over the statics
\* of an earlier one, has told its listeners what it remembers (signal_switch).
SwitchIsConsistent == HandlersRestored /\ (loop = "switch" => SwitchSaysWhatItKnows)

\* The first interruption, and the first one after a reset, is told to the
\* listeners of a switch, unless a reset takes it back or no switch is left; with
\* several at once to those of the one that is polled first (operator bool).
InterruptionReported ==
    Unreported \/ (loop = "switch" /\ swState # "none" /\ Told("off"))
        ~> Told("on") \/ swState = "none" \/ switches = <<>>
=============================================================================
