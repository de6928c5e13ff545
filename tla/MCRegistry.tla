----------------------------- MODULE MCRegistry -----------------------------
(***************************************************************************)
(* Two commands on a registry of up to three targets.                      *)
(***************************************************************************)
EXTENDS Registry, TLC

CONSTANTS p, q,            \* processes
          a, b, c,         \* addresses
          an, bn, cn,      \* the names made from them
          dev, mine        \* a device's name, and one given by a user

MCProc    == {p, q}
MCSockAddr == {a, b, c}
MCName    == {an, bn, cn, dev, mine, b}   \* b: an address as a name
MCDefault == (a :> an) @@ (b :> bn) @@ (c :> cn)
MCDevice  == (a :> dev) @@ (b :> bn) @@ (c :> dev)

Cmd(op, x, n) == [op |-> op, addr |-> x, name |-> n]
MCCommands ==
    {Cmd("connect", a, None), Cmd("connect", c, mine), Cmd("disconnect", None, None),
     Cmd("disconnect", a, None), Cmd("devices", None, None), Cmd("resolve", None, None)}

T(n, x)   == [name |-> n, addr |-> x]
R(ts, x)  == [targets |-> ts, current |-> x]
(* No file, normalized files, and older ones: a name as current target,     *)
(* none at all, a dangling one, a target saved twice, one with the address  *)
(* of another as its name, and a file that a crash has left behind.         *)
MCFiles ==
    {Absent, R(<<T(an, a)>>, a), R(<<T(mine, a), T(bn, b)>>, a),
     R(<<T(dev, b), T(an, a), T(cn, c)>>, dev), R(<<T(an, a), T(bn, b)>>, None),
     R(<<T(an, a), T(bn, b), T(mine, a)>>, b), R(<<T(bn, b)>>, c),
     R(<<T(b, a), T(bn, b), T(cn, c)>>, b), Torn}
=============================================================================
