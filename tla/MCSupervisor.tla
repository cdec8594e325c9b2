---------------------------- MODULE MCSupervisor ----------------------------
(* Two supervisors; room for both children and one process more.           *)
EXTENDS Supervisor

CONSTANTS s1, s2, p1, p2, p3, i1, i2

MCSupervisor == {s1, s2}
MCPid        == {p1, p2, p3}
MCIdentity   == {i1, i2}
=============================================================================
