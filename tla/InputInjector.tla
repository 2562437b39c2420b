---------------------------- MODULE InputInjector ----------------------------
(***************************************************************************)
(* crates/quicview-input: inject_batch (injector.rs) over the injector for *)
(* Windows (sendinput.rs), which makes native inputs of each event.  Any   *)
(* of them may fail, by SendInput or by the screen's size.  Coordinates,   *)
(* codes and amounts are left out: an event is the kinds of its inputs.    *)
(***************************************************************************)
EXTENDS Naturals, Sequences, SequencesExt

CONSTANTS
  MaxBatch,        \* bound: events in a batch
  MaxInjected      \* bound: no call is made when more events are injected

ASSUME InjectorAssumption == MaxBatch \in Nat /\ MaxInjected \in Nat

\* A mouse event moves the pointer, then may press or release a button; a scroll
\* event turns each wheel by its amount, if that is not (almost) zero.
Mouse == {<<"move">>, <<"move", "press">>, <<"move", "release">>}
Key == {<<"keyDown">>, <<"keyUp">>}
Scroll == {<<>>, <<"wheel">>, <<"hwheel">>, <<"wheel", "hwheel">>}
InputEvents == Mouse \cup Key \cup Scroll
Natives == {"move", "press", "release", "keyDown", "keyUp", "wheel", "hwheel"}

VARIABLES
  batch,           \* the batch given to inject_batch
  current,         \* the number of the event it is at
  step,            \* how many native inputs of that event are in
  injector,        \* "idle", "running", "ok" or "err": the last call's result
  native,          \* the native inputs that are in, of this call
  injected,        \* events_injected
  before           \* history: events_injected before this call

injectorVars == <<batch, current, step, injector, native, injected, before>>

InjectorTypeOK ==
  /\ batch \in Seq(InputEvents) /\ Len(batch) <= MaxBatch
  /\ current \in 1..Len(batch) + 1
  /\ step \in 0..2
  /\ injector \in {"idle", "running", "ok", "err"}
  /\ native \in Seq(Natives)
  /\ injected \in Nat /\ before \in Nat

InjectorInit ==
  /\ batch = <<>>
  /\ current = 1
  /\ step = 0
  /\ injector = "idle"
  /\ native = <<>>
  /\ injected = 0
  /\ before = 0

-----------------------------------------------------------------------------
InjectBatch(events) ==
  /\ injector # "running"
  /\ injected <= MaxInjected
  /\ batch' = events
  /\ current' = 1
  /\ step' = 0
  /\ injector' = "running"
  /\ native' = <<>>
  /\ before' = injected
  /\ UNCHANGED injected

AtEvent == injector = "running" /\ current <= Len(batch)

SendInput ==
  /\ AtEvent
  /\ step < Len(batch[current])
  /\ native' = Append(native, batch[current][step + 1])
  /\ step' = step + 1
  /\ UNCHANGED <<batch, current, injector, injected, before>>

\* Mutant: the error of one event does not keep the others from injection.
SendInputFailsSkips ==
  /\ AtEvent
  /\ step < Len(batch[current])
  /\ current' = current + 1
  /\ step' = 0
  /\ UNCHANGED <<batch, injector, native, injected, before>>

\* The rest of the event and of the batch is left, what is in stays in.
SendInputFails ==
  /\ AtEvent
  /\ step < Len(batch[current])
  /\ injector' = "err"
  /\ UNCHANGED <<batch, current, step, native, injected, before>>

EventDone ==
  /\ AtEvent
  /\ step = Len(batch[current])
  /\ injected' = injected + 1
  /\ current' = current + 1
  /\ step' = 0
  /\ UNCHANGED <<batch, injector, native, before>>

BatchDone ==
  /\ injector = "running"
  /\ current > Len(batch)
  /\ injector' = "ok"
  /\ UNCHANGED <<batch, current, step, native, injected, before>>

InjectorNext ==
  \/ \E events \in BoundedSeq(InputEvents, MaxBatch) : InjectBatch(events)
  \/ SendInput
  \/ SendInputFails
  \/ EventDone
  \/ BatchDone

InjectorSpec == InjectorInit /\ [][InjectorNext]_injectorVars

-----------------------------------------------------------------------------
(* Properties                                                              *)

\* The native inputs of the first n events of a batch.
Inputs(events) ==
  LET first[n \in 0..Len(events)] == IF n = 0 THEN <<>> ELSE first[n - 1] \o events[n]
  IN  first

\* The native inputs of a call are the first of its batch, each once and in
\* order; all of them when it returns Ok; and events_injected has gone up by the
\* events that are in completely, also when it returns an error
\* (injector.rs:13-19, sendinput.rs:147-164).
InjectsPrefix ==
  LET done == injected - before
      inputs == Inputs(batch)
  IN  /\ injected >= before /\ done <= Len(batch)
      /\ IsPrefix(native, inputs[Len(batch)])
      /\ IsPrefix(inputs[done], native)
      /\ done < Len(batch) => IsPrefix(native, inputs[done + 1])
      /\ injector = "ok" => native = inputs[Len(batch)] /\ done = Len(batch)
      /\ injector = "err" => done < Len(batch) /\ native # inputs[done + 1]
=============================================================================
