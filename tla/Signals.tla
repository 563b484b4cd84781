------------------------------ MODULE Signals ------------------------------
(***************************************************************************)
(* signal and signal_binding: callbacks kept in a flat_map by key, and the *)
(* handles that disconnect them; signal_switch: the flag that the handlers *)
(* of SIGINT and SIGTERM set, polled and reset by the main thread, and the *)
(* signal "switched" that each switch has of its own: the flag, and that   *)
(* it was signalled, are static.                                           *)
(***************************************************************************)
EXTENDS Integers, Sequences, FiniteSets

Q == INSTANCE SequencesExt

CONSTANTS
    Slots,                  \* callbacks
    Binders,                \* signal_binding objects
    KeyMax,                 \* the largest signal_binding_key, 65535 in the code
    MaxSwitches             \* bound: signal_switch objects alive at once

ASSUME SignalsAssumption == KeyMax \in Nat \ {0} /\ MaxSwitches \in Nat

VARIABLES
    slots,                  \* _slots: sequence of [key, slot], by key
    rawKey,                 \* the key that connect() returned for a slot; 0: none
    bound,                  \* the bindings: their _key and, for the record, the slot bound
    at,                     \* position of the call under way; 0: none
    upTo,                   \* its end, taken when it began
    called,                 \* the slots called by it so far
    swState, swSignalled,   \* signal_switch_state, signal_switch_signalled
    told,                   \* what "switched" of each switch alive last said
    handlers,               \* the handlers of the two OS signals
    switches,               \* the switches alive: the handlers each has saved
    pc,                     \* where the main thread is in a member of a switch
    acting                  \* that switch; 0: none

callVars == <<slots, rawKey, bound, at, upTo, called>>
swVars == <<swState, swSignalled, told, handlers, switches, pc, acting>>
signalVars == <<callVars, swVars>>

OSSignals == {"SIGINT", "SIGTERM"}

Unbound == [key |-> 0, slot |-> "none"]

SignalsInit ==
    /\ slots = <<>> /\ rawKey = [s \in Slots |-> 0] /\ bound = [b \in Binders |-> Unbound]
    /\ at = 0 /\ upTo = 0 /\ called = <<>>
    /\ swState = "none" /\ swSignalled = FALSE /\ told = <<>>
    /\ handlers = [s \in OSSignals |-> "default"] /\ switches = <<>>
    /\ pc = "idle" /\ acting = 0

KeysUsed(ss) == {ss[i].key : i \in DOMAIN ss}

\* The key counter of connect() is wider than the keys in the map, which see
\* it modulo KeyMax + 1.
Stored(k) == k % (KeyMax + 1)

KeyAfterLast(ss) == IF ss = <<>> THEN 1 ELSE Q!Last(ss).key + 1   \* mutant of FreeKey

FreeKey(ss) ==
    LET first == IF ss = <<>> THEN 1
                 ELSE IF Q!Last(ss).key # KeyMax THEN Q!Last(ss).key + 1 ELSE 1
    IN  CHOOSE k \in first..(first + KeyMax) :
            /\ Stored(k) \notin KeysUsed(ss)
            /\ \A j \in first..(k - 1) : Stored(j) \in KeysUsed(ss)

\* The position in the map before which all keys are less than k.
Place(ss, k) ==
    CHOOSE p \in 1..(Len(ss) + 1) : \A i \in DOMAIN ss : ss[i].key < k <=> i < p

Connected(ss, slot) ==
    LET k == Stored(FreeKey(ss))
    IN  Q!InsertAt(ss, Place(ss, k), [key |-> k, slot |-> slot])

Erased(ss, key) ==
    LET p == Place(ss, key)
    IN  IF p \in DOMAIN ss /\ ss[p].key = key THEN Q!RemoveAt(ss, p) ELSE ss

\* Slots do not change the signal that calls them, and fewer slots than there
\* are keys are connected: with all in use the next one gets the key 0, which
\* stands for none in a binding.
MayChange == at = 0

KeysLeft == Len(slots) < KeyMax

\* connect(), and disconnect() with the key it returned, once.
Connect(s) ==
    /\ MayChange /\ KeysLeft /\ rawKey[s] = 0
    /\ rawKey' = [rawKey EXCEPT ![s] = Stored(FreeKey(slots))]
    /\ slots' = Connected(slots, s)
    /\ UNCHANGED <<bound, at, upTo, called, swVars>>

Disconnect(s) ==
    /\ MayChange /\ rawKey[s] # 0
    /\ slots' = Erased(slots, rawKey[s])
    /\ rawKey' = [rawKey EXCEPT ![s] = 0]
    /\ UNCHANGED <<bound, at, upTo, called, swVars>>

\* b = signal.bind(s): the assignment swaps with the temporary, which then
\* disconnects what b was bound to before.
Bind(b, s) ==
    /\ MayChange /\ KeysLeft
    /\ bound' = [bound EXCEPT ![b] = [key |-> Stored(FreeKey(slots)), slot |-> s]]
    /\ slots' = LET made == Connected(slots, s)
                IN  IF bound[b].key # 0 THEN Erased(made, bound[b].key) ELSE made
    /\ UNCHANGED <<rawKey, at, upTo, called, swVars>>

\* a = std::move(b).
MoveBinding(a, b) ==
    /\ MayChange /\ a # b /\ bound[a] # bound[b]
    /\ bound' = [bound EXCEPT ![a] = bound[b], ![b] = bound[a]]
    /\ UNCHANGED <<slots, rawKey, at, upTo, called, swVars>>

\* disconnect() and the destructor.
Unbind(b) ==
    /\ MayChange /\ bound[b].key # 0
    /\ slots' = Erased(slots, bound[b].key)
    /\ bound' = [bound EXCEPT ![b] = Unbound]
    /\ UNCHANGED <<rawKey, at, upTo, called, swVars>>

\* operator (): every entry from begin to the end it had.
BeginCall ==
    /\ at = 0 /\ slots # <<>>
    /\ at' = 1 /\ upTo' = Len(slots) /\ called' = <<>>
    /\ UNCHANGED <<slots, rawKey, bound, swVars>>

CallSlot ==
    /\ at # 0
    /\ \E s \in Slots : /\ at \in DOMAIN slots => s = slots[at].slot
                        /\ called' = IF at = upTo THEN <<>> ELSE Append(called, s)
    /\ at' = IF at = upTo THEN 0 ELSE at + 1
    /\ UNCHANGED <<slots, rawKey, bound, upTo, swVars>>

-----------------------------------------------------------------------------
(* signal_switch.  A switch saves the handlers it replaces and puts them   *)
(* back; switches are scoped objects, destroyed in the reverse order.      *)
(* Whoever has one that is alive polls and resets it.                      *)

SwitchOn ==
    /\ pc = "idle" /\ Len(switches) < MaxSwitches
    /\ switches' = Append(switches, handlers) /\ told' = Append(told, "nothing")
    /\ handlers' = [s \in OSSignals |-> "flip"]
    /\ UNCHANGED <<swState, swSignalled, pc, acting, callVars>>

KeepHandlers ==     \* mutant of SwitchOff
    /\ pc = "idle" /\ switches # <<>>
    /\ switches' = Q!Front(switches) /\ told' = Q!Front(told)
    /\ UNCHANGED <<handlers, swState, swSignalled, pc, acting, callVars>>

SwitchOff ==
    /\ pc = "idle" /\ switches # <<>>
    /\ handlers' = Q!Last(switches)
    /\ switches' = Q!Front(switches) /\ told' = Q!Front(told)
    /\ UNCHANGED <<swState, swSignalled, pc, acting, callVars>>

\* An OS signal, at any moment; the default handler ends the process.
Flip(s) ==
    /\ handlers[s] = "flip"
    /\ swState' = s
    /\ UNCHANGED <<swSignalled, told, handlers, switches, pc, acting, callVars>>

\* reset() of a switch: clear the state, say so, forget that it was said.
ResetState(i) ==
    /\ pc = "idle"
    /\ swState' = "none" /\ pc' = "say_off" /\ acting' = i
    /\ UNCHANGED <<swSignalled, told, handlers, switches, callVars>>

SayOff ==
    /\ pc = "say_off" /\ pc' = "forget"
    /\ told' = [told EXCEPT ![acting] = "off"]
    /\ UNCHANGED <<swState, swSignalled, handlers, switches, acting, callVars>>

ForgetNothing ==    \* mutant of Forget
    /\ pc = "forget" /\ pc' = "idle" /\ acting' = 0
    /\ UNCHANGED <<swState, swSignalled, told, handlers, switches, callVars>>

Forget ==
    /\ pc = "forget" /\ swSignalled' = FALSE /\ pc' = "idle" /\ acting' = 0
    /\ UNCHANGED <<swState, told, handlers, switches, callVars>>

\* operator bool: the first poll that sees the state, of whichever switch, says so.
Poll(i) ==
    /\ pc = "idle" /\ swState # "none" /\ ~swSignalled
    /\ pc' = "say_on" /\ acting' = i
    /\ UNCHANGED <<swState, swSignalled, told, handlers, switches, callVars>>

SayOn ==
    /\ pc = "say_on" /\ pc' = "remember"
    /\ told' = [told EXCEPT ![acting] = "on"]
    /\ UNCHANGED <<swState, swSignalled, handlers, switches, acting, callVars>>

Remember ==
    /\ pc = "remember" /\ swSignalled' = TRUE /\ pc' = "idle" /\ acting' = 0
    /\ UNCHANGED <<swState, told, handlers, switches, callVars>>

SwitchPoll == \E i \in DOMAIN switches : Poll(i)

SwitchGoOn == SayOff \/ Forget \/ SayOn \/ Remember

SwitchStep == SwitchPoll \/ SwitchGoOn \/ \E i \in DOMAIN switches : ResetState(i)

SignalNext ==
    \/ \E s \in Slots : Connect(s) \/ Disconnect(s) \/ \E b \in Binders : Bind(b, s)
    \/ \E b \in Binders : Unbind(b) \/ \E a \in Binders : MoveBinding(a, b)
    \/ BeginCall \/ CallSlot

SwitchNext == SwitchOn \/ SwitchOff \/ SwitchStep \/ \E s \in OSSignals : Flip(s)

-----------------------------------------------------------------------------
\* A key belongs to one owner, a binding or the caller of connect(), and finds
\* the slot that owner connected; no slot is left without an owner.
KeysNameTheirSlots ==
    LET owned == {<<bound[b].key, bound[b].slot>> : b \in {x \in Binders : bound[x].key # 0}}
                 \cup {<<rawKey[s], s>> : s \in {x \in Slots : rawKey[x] # 0}}
    IN  /\ {<<slots[i].key, slots[i].slot>> : i \in DOMAIN slots} = owned
        /\ Cardinality(owned) = Len(slots)
        /\ \A b, c \in Binders : bound[b].key # 0 /\ bound[b].key = bound[c].key => b = c

\* A call has called, in the order of their keys, the slots that come before
\* its position, and every slot still connected is yet to be called.
CallsReachEverySlot ==
    at # 0 => upTo = Len(slots) /\ called = [i \in 1..(at - 1) |-> slots[i].slot]

\* Between members of a switch, what its "switched" last said, if anything, is
\* what the statics remember.
SwitchSaysWhatItKnows ==
    pc = "idle" => \A i \in DOMAIN told : told[i] # "nothing" => (told[i] = "on" <=> swSignalled)

\* With every switch gone the handlers are those found at first.
HandlersRestored == switches = <<>> => handlers = [s \in OSSignals |-> "default"]

\* An OS signal has come that nobody was told of, nor was of one before it.
Unreported == swState # "none" /\ ~swSignalled

Told(what) == \E i \in DOMAIN told : told[i] = what
=============================================================================
