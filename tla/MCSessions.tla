---------------------------- MODULE MCSessions ----------------------------
(***************************************************************************)
(* Three clients that share two sessions, two threads of a server whose    *)
(* port has room for both sessions.                                        *)
(***************************************************************************)
EXTENDS Sessions

CONSTANTS c1, c2, c3, s1, s2, a, b

MCClients == {c1, c2, c3}
MCServers == {s1, s2}
MCMortal == {c1, c2, s1}
MCIds == {a, b}
MCMaxSessions == [p \in Ports |-> IF p = "lle" THEN 2 ELSE 1]
=============================================================================
