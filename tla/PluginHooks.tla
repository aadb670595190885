------------------------------ MODULE PluginHooks ------------------------------
(***************************************************************************)
(* PluginLoaderService.enablePlugin and disablePlugin, called by the       *)
(* dashboard while HookManager runs the handlers of an event.  One event   *)
(* stands for all: the lists of two events share nothing but the plugins.  *)
(***************************************************************************)
EXTENDS Naturals, Sequences, SequencesExt, Arrays

CONSTANTS
    Plugins,
    Priority, \* of each plugin's handler: a lower one runs earlier
    Calls,    \* the calls of enable and disable
    Runs      \* the executions of the event

VARIABLES
    status, \* PluginInstance.status
    call,   \* the progress of each call
    hooks,  \* HookManager.hooks of the event: which plugin each registration is of
    run     \* the progress of each execution

vars == <<status, call, hooks, run>>

Statuses == {"installed", "enabled", "disabled", "error"}

\* "loading": onLoad is awaited; "enabling" and "disabling": onEnable, onDisable.
NoCall == [at |-> "none", plugin |-> CHOOSE p \in Plugins : TRUE]

\* An execution iterates over the array it has found: the registered one (`live`),
\* or, once unregisterPlugin has put a filtered copy in its place, the old one.
\* `began`, `ran` and `disturbed` are history.
NoRun == [at |-> "none", live |-> TRUE, array |-> <<>>, next |-> 1,
          began |-> <<>>, ran |-> <<>>, disturbed |-> FALSE]

TypeOK ==
    /\ status \in [Plugins -> Statuses]
    /\ call \in [Calls -> [at : {"none", "loading", "enabling", "disabling", "over"},
                           plugin : Plugins]]
    /\ hooks \in Seq(Plugins)
    /\ run \in [Runs -> [at : {"none", "running", "stopped", "over"}, live : BOOLEAN,
                         array : Seq(Plugins), next : Nat \ {0},
                         began : Seq(Plugins), ran : Seq(Plugins), disturbed : BOOLEAN]]

-----------------------------------------------------------------------------
\* register: pushed, and sorted by priority (stably).
Registered(p) ==
    Filter(hooks, LAMBDA q : Priority[q] <= Priority[p])
        \o <<p>> \o Filter(hooks, LAMBDA q : Priority[q] > Priority[p])

\* The executions that iterate over the array register changes.
Disturbed ==
    [r \in Runs |-> IF run[r].at = "running" /\ run[r].live
                      THEN [run[r] EXCEPT !.disturbed = TRUE] ELSE run[r]]

\* Mutant: the registrations are spliced out of the array.
Frozen_InPlace(p) == run

\* unregisterPlugin sets a new array; those who iterate keep the old one.
Frozen(p) ==
    [r \in Runs |-> IF run[r].at = "running" /\ run[r].live /\ p \in ToSet(hooks)
                      THEN [run[r] EXCEPT !.live = FALSE, !.array = hooks] ELSE run[r]]

\* Mutant: unregisters as unregister(hookId) does, one registration.
Unregistered_First(p) ==
    IF p \in ToSet(hooks) THEN RemoveAt(hooks, CHOOSE i \in DOMAIN hooks : hooks[i] = p) ELSE hooks

Unregistered(p) == Filter(hooks, LAMBDA q : q # p)

-----------------------------------------------------------------------------
\* enablePlugin returns at once when the plugin is enabled.
EnableBegins(c, p) ==
    /\ call[c].at = "none"
    /\ status[p] # "enabled"
    /\ call' = [call EXCEPT ![c] = [at |-> "loading", plugin |-> p]]
    /\ UNCHANGED <<status, hooks, run>>

\* onLoad settles; onEnable registers the handler before it first awaits.
EnableRegisters(c) ==
    /\ call[c].at = "loading"
    /\ call' = [call EXCEPT ![c].at = "enabling"]
    /\ hooks' = Registered(call[c].plugin)
    /\ run' = Disturbed
    /\ UNCHANGED status

\* onEnable settles.
EnableReturns(c) ==
    /\ call[c].at = "enabling"
    /\ call' = [call EXCEPT ![c].at = "over"]
    /\ status' = [status EXCEPT ![call[c].plugin] = "enabled"]
    /\ UNCHANGED <<hooks, run>>

\* The module cannot be loaded, onLoad or onEnable rejects, or onDisable: what has
\* been registered stays.
CallFails(c) ==
    /\ call[c].at \in {"loading", "enabling", "disabling"}
    /\ call' = [call EXCEPT ![c].at = "over"]
    /\ status' = [status EXCEPT ![call[c].plugin] = "error"]
    /\ UNCHANGED <<hooks, run>>

\* disablePlugin returns at once unless the plugin is enabled.
DisableBegins(c, p) ==
    /\ call[c].at = "none"
    /\ status[p] = "enabled"
    /\ call' = [call EXCEPT ![c] = [at |-> "disabling", plugin |-> p]]
    /\ UNCHANGED <<status, hooks, run>>

DisableReturns(c) ==
    /\ call[c].at = "disabling"
    /\ LET p == call[c].plugin IN
           /\ run' = Frozen(p)
           /\ hooks' = Unregistered(p)
           /\ status' = [status EXCEPT ![p] = "disabled"]
    /\ call' = [call EXCEPT ![c].at = "over"]

-----------------------------------------------------------------------------
\* execute, runHandlers: without a registration it is over.
RunBegins(r) ==
    /\ run[r].at = "none"
    /\ hooks # <<>>
    /\ run' = [run EXCEPT ![r].at = "running", ![r].began = hooks]
    /\ UNCHANGED <<status, call, hooks>>

Array(r) == IF run[r].live THEN hooks ELSE run[r].array

\* The next handler: it lets the chain go on (also by throwing), or stops it.
RunCallsHandler(r) ==
    /\ run[r].at = "running"
    /\ run[r].next <= Len(Array(r))
    /\ \E at \in {"running", "stopped"} :
           run' = [run EXCEPT ![r].at = at, ![r].next = @ + 1,
                              ![r].ran = Append(@, Array(r)[run[r].next])]
    /\ UNCHANGED <<status, call, hooks>>

RunEnds(r) ==
    /\ run[r].at = "running"
    /\ run[r].next > Len(Array(r))
    /\ run' = [run EXCEPT ![r].at = "over"]
    /\ UNCHANGED <<status, call, hooks>>

-----------------------------------------------------------------------------
Init ==
    /\ status = [p \in Plugins |-> "installed"]
    /\ call = [c \in Calls |-> NoCall]
    /\ hooks = <<>>
    /\ run = [r \in Runs |-> NoRun]

Next ==
    \/ \E c \in Calls :
           \/ \E p \in Plugins : EnableBegins(c, p) \/ DisableBegins(c, p)
           \/ EnableRegisters(c) \/ EnableReturns(c) \/ CallFails(c) \/ DisableReturns(c)
    \/ \E r \in Runs : RunBegins(r) \/ RunCallsHandler(r) \/ RunEnds(r)

Spec == Init /\ [][Next]_vars

-----------------------------------------------------------------------------
(* Properties *)

\* A message is shown to the handlers that were registered when it came, each once
\* and in their order, whichever plugins are disabled meanwhile; to fewer only if
\* one of them stops the chain.
ChainHolds ==
    \A r \in Runs : ~run[r].disturbed =>
        /\ run[r].ran = SubSeq(run[r].began, 1, Len(run[r].ran))
        /\ run[r].at = "over" => run[r].ran = run[r].began

\* Of a disabled plugin nothing stays registered, though it was enabled by two
\* calls at once; unless one of them goes on.
DisabledHasNoHook ==
    \A p \in Plugins :
        status[p] = "disabled" /\ (\A c \in Calls : call[c] # [at |-> "enabling", plugin |-> p])
            => p \notin ToSet(hooks)

=============================================================================
