----------------------------- MODULE MCUpdater -----------------------------
(* Small instances of Updater, and with it of HostKernel, for TLC. *)
EXTENDS Updater

Req(s, i, c) == [subject |-> s, id |-> i, command |-> c]

\* One id reused within the slow lane, one request of the other lane.
MCRequests ==
    {Req("native_menu", "a", "install_update"), Req("native_menu", "a", "quit"),
     Req("harness_web", "b", "refresh")}

Version(core, prerelease) == [core |-> core, prerelease |-> prerelease]
Number(n) == [numeric |-> TRUE, value |-> n]
Text(n) == [numeric |-> FALSE, value |-> n]

MCCurrent == Version(<<1, 0, 0>>, <<>>)

\* An older one with a higher patch number, a newer one and its preview.
MCPublished ==
    {Version(<<0, 9, 1>>, <<>>), Version(<<1, 1, 0>>, <<>>),
     Version(<<1, 1, 0>>, <<Text(1)>>)}

-----------------------------------------------------------------------------
(* The comparison of versions against the precedence of semver.org, for    *)
(* all versions with two core numbers and up to two identifiers.           *)

SmallIdentifiers == {Number(0), Number(1), Text(0), Text(1)}
SmallVersions ==
    {Version(c, p) : c \in {0, 1} \X {0, 1} \X {0},
                     p \in UNION {[1 .. n -> SmallIdentifiers] : n \in 0 .. 2}}

ASSUME ComparesByPrecedence ==
    \A a, b \in SmallVersions : IsNewer(a, b) <=> Precedes(b, a)
=============================================================================
