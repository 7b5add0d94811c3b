----------------------------- MODULE MCPromise -----------------------------
(* Client programs for checking Promise with TLC. *)
EXTENDS Promise

A(kind, from, to) == [kind |-> kind, from |-> from, to |-> to, sync |-> FALSE,
                      calls |-> None, then |-> None, out |-> Value]

Results == {Value, Raised("error")}

\* A chain on p1: a function and a composition with p2, against cancellation of
\* the promise in the middle; the end of the chain is waited for.
Chain ==
  {[roots |-> {"p1", "p2"},
    act |-> [f |-> A("function", <<"p1">>, "q1"),
             g |-> [A(k, <<"q1">>, "q2") EXCEPT !.then = "h"],
             h |-> A("relay", <<"p2">>, "q2")],
    ops |-> [t1 |-> {complete("p1", o), thenCompose("q1", "g", "p2", "q2")},
             t2 |-> {thenApply("p1", "f", "q1"), complete("p2", Value), cancel("q1"),
                     get("q2")}]] : o \in Results, k \in {"compose", "biCompose"}}

\* anyOf with a timeout on its result.
Race ==
  {[roots |-> {"p1", "p2"},
    act |-> [a1 |-> A("anyOf", <<"p1">>, "q1"), a2 |-> A("anyOf", <<"p2">>, "q1"),
             x |-> [A("timeout", <<"q1">>, None) EXCEPT !.out = Raised("timeout")]],
    ops |-> [t1 |-> {complete("p1", o), orTimeout("q1", "x"), getWithin("q1")},
             t2 |-> {anyOf("p1", "a1", "p2", "a2", "q1"), complete("p2", Value)}]]
     : o \in Results}

\* All that may depend on one promise, and a delay.
Fan ==
  {[roots |-> {"p1"},
    act |-> [f |-> A(k, <<"p1">>, "q1"),
             d |-> [A("delay", <<"p1">>, "q2") EXCEPT !.then = "x"],
             x |-> A("timeout", <<"q2">>, None)],
    ops |-> [t1 |-> {complete("p1", o), delay("p1", "d", "q2")},
             t2 |-> {thenAccept("p1", "f", "q1"), cancel("p1"), get("q1"), cancel("q2")}]]
     : o \in Results, k \in {"biFunction", "consumer", "biConsumer", "run",
                             "errorFunction", "errorConsumer"}}

\* allOf with completeOnException.  One thread creates it and completes both.
All ==
  {[roots |-> {"p1", "p2"},
    act |-> [b |-> A("biRelay", <<"p1", "p2">>, "v"),
             e1 |-> A("errorRelay", <<"p1">>, "e"), e2 |-> A("errorRelay", <<"p2">>, "e"),
             a1 |-> A("anyOf", <<"v">>, "c"), a2 |-> A("anyOf", <<"e">>, "c"),
             t |-> [A("biConsumer", <<"c">>, "d") EXCEPT !.sync = TRUE, !.calls = "r"]],
    ops |-> [t1 |-> {complete("p1", o1), complete("p2", o2),
                     allOfOrException("p1", "p2", "b", "v", "e1", "e2", "e",
                                      "a1", "a2", "c", "t", "r")},
             t2 |-> {get("r"), cancel("r")}]] : o1, o2 \in Results}

\* allOf of a single promise, which is both suppliers of the action.
Single ==
  {[roots |-> {"p1"},
    act |-> [b |-> A("biRelay", <<"p1", "p1">>, "v")],
    ops |-> [t1 |-> {complete("p1", o), get("v")}, t2 |-> {allOf("p1", "p1", "b", "v")}]]
     : o \in Results}

AllPrograms == Chain \cup Race \cup Fan \cup All \cup Single

\* allOf of two promises that are completed by different threads.
TwoCompleters ==
  {[roots |-> {"p1", "p2"},
    act |-> [b |-> A("biRelay", <<"p1", "p2">>, "v")],
    ops |-> [t1 |-> {allOf("p1", "p2", "b", "v"), complete("p1", Value)},
             t2 |-> {complete("p2", Value)}]]}
=============================================================================
