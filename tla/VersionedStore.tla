--------------------------- MODULE VersionedStore ---------------------------
(***************************************************************************)
(* What store.VersionedStore promises: the contract the cache relies on,    *)
(* whatever backend implements it.                                          *)
(*                                                                          *)
(* log[k] is the history of every write the store accepted for key k,       *)
(* oldest first.  Only the last one can be observed, and only until it      *)
(* expires; a key that was never written, or whose last write has expired,  *)
(* is absent and reports version 0.                                         *)
(*                                                                          *)
(* A write is a record                                                      *)
(*   ver      the version minted for it                                     *)
(*   pay      what it stores                                                *)
(*   del      it is a tombstone                                             *)
(*   expect   the version the caller compared with; ForceVersion: a blind   *)
(*            write                                                         *)
(*   at, exp  when it was accepted and when it expires (0: never)           *)
(***************************************************************************)
EXTENDS Naturals, Sequences

CONSTANTS Keys,
          ForceVersion   \* store.ForceVersion: no version a write can carry

VARIABLES now,       \* the store's clock
          log        \* log[k]: the writes accepted for k, oldest first

vars == <<now, log>>

Latest(k) == log[k][Len(log[k])]

Present(k) == /\ Len(log[k]) > 0
              /\ Latest(k).exp = 0 \/ now <= Latest(k).exp

\* The version Load reports: also for a tombstone, and 0 for an absent key.
Version(k) == IF Present(k) THEN Latest(k).ver ELSE 0

\* Load's found result: a live entry, not a tombstone.
Found(k) == Present(k) /\ ~Latest(k).del

SetAllowed(k, expect) == expect # ForceVersion => expect = Version(k)

DeleteAllowed(k, expect) == expect # ForceVersion => expect >= Version(k)

\* Versions only grow over the whole history of a key, expired writes included.
NewVersion(k, nv) == nv > 0 /\ \A n \in 1..Len(log[k]) : log[k][n].ver < nv

Mint(k, nv, pay, del, expect, exp) ==
    /\ NewVersion(k, nv)
    /\ exp = 0 \/ exp > now
    /\ log' = [log EXCEPT ![k] = Append(@,
                 [ver |-> nv, pay |-> pay, del |-> del, expect |-> expect,
                  at |-> now, exp |-> exp])]

-----------------------------------------------------------------------------
\* A refused operation changes nothing, so only the accepted ones are steps.
SetCAS(k, nv, pay, expect, exp) ==
    /\ SetAllowed(k, expect)
    /\ Mint(k, nv, pay, FALSE, expect, exp)

CompareAndDelete(k, nv, note, expect, exp) ==
    /\ DeleteAllowed(k, expect)
    /\ Mint(k, nv, note, TRUE, expect, exp)

Tick == now' = now + 1

-----------------------------------------------------------------------------
Init == /\ now = 0
        /\ log = [k \in Keys |-> << >>]

Next ==
    \/ Tick /\ UNCHANGED log
    \/ \E k \in Keys :
          /\ Len(log[k]') = Len(log[k]) + 1
          /\ LET w == Latest(k)'
             IN  \/ SetCAS(k, w.ver, w.pay, w.expect, w.exp)
                 \/ CompareAndDelete(k, w.ver, w.pay, w.expect, w.exp)
          /\ UNCHANGED now

Spec == Init /\ [][Next]_vars
=============================================================================
