----------------------------- MODULE LeaseLock -----------------------------
(***************************************************************************)
(* The edit lock of an act as Redis decides it: a key whose value names    *)
(* the user who holds it and whose TTL ends the lease.  The three Lua      *)
(* scripts of act_lock_backends.py run atomically, so each is one          *)
(* operator from the holder before to the holder after.  NoUser is the     *)
(* absent key: never taken, released, or expired.                          *)
(***************************************************************************)
CONSTANT NoUser

\* _LUA_ACQUIRE writes the key when it is absent or already names u.
CanAcquire(holder, u) == holder \in {NoUser, u}

\* _LUA_EXTEND and AccessGuard.require_lock_owner succeed for the named user only.
Holds(holder, u) == holder = u

\* _LUA_RELEASE deletes the key only when it names u; otherwise nothing happens.
AfterRelease(holder, u) == IF Holds(holder, u) THEN NoUser ELSE holder
=============================================================================
