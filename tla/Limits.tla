------------------------------- MODULE Limits -------------------------------
(***************************************************************************)
(* The configured limits of the gateway: three scopes of concurrency (the  *)
(* whole gateway, a namespace, an upstream), the call timeout, and the     *)
(* breaker threshold.  The concurrency limits and their overrides are      *)
(* shared by the abstract promise (CallLimits) and by the dispatch path    *)
(* that implements it (Dispatch).                                          *)
(***************************************************************************)
EXTENDS Integers, FiniteSets

CONSTANTS
    Calls,                  \* client requests that may be in flight at once
    Global,                 \* the scope of Gateway.global
    Namespaces,             \* the scopes of nsServer.sem
    Upstreams,              \* the scopes of Gateway.perSrv
    NsOf,                   \* the namespace of each upstream
    MaxConcurrent,          \* Limits.MaxConcurrent
    PerNamespace,           \* Limits.PerNamespace
    PerServer,              \* Limits.PerServer
    NamespaceConcurrency,   \* overrides; 0 stands for an absent key
    ServerConcurrency

Scopes == {Global} \cup Namespaces \cup Upstreams

ASSUME LimitsAssumption ==
    /\ IsFiniteSet(Calls)
    /\ Global \notin Namespaces \cup Upstreams
    /\ Namespaces \cap Upstreams = {}
    /\ NsOf \in [Upstreams -> Namespaces]
    /\ MaxConcurrent \in Int /\ PerNamespace \in Int /\ PerServer \in Int
    /\ NamespaceConcurrency \in [Namespaces -> Int]
    /\ ServerConcurrency \in [Upstreams -> Int]

namespaceLimit(ns) ==
    IF NamespaceConcurrency[ns] > 0 THEN NamespaceConcurrency[ns] ELSE PerNamespace

serverLimit(id) ==
    IF ServerConcurrency[id] > 0 THEN ServerConcurrency[id] ELSE PerServer

\* The capacity the semaphore of a scope is made with.
Capacity(s) ==
    IF s = Global THEN MaxConcurrent
    ELSE IF s \in Namespaces THEN namespaceLimit(s)
    ELSE serverLimit(s)

\* newSemaphore: a capacity of zero or less is no semaphore at all.
Limited(s) == Capacity(s) > 0

\* Faulty variant: the scope with a limit of its own is waited for first.
Path_OwnLimitFirst(u) ==
    IF ServerConcurrency[u] > 0 THEN <<u, NsOf[u], Global>> ELSE <<Global, NsOf[u], u>>

\* The semaphores a call to u takes, in the order dispatch takes them.
Path(u) == <<Global, NsOf[u], u>>
ScopesOf(u) == {Global, NsOf[u], u}
=============================================================================
