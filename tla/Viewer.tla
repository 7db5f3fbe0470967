------------------------------- MODULE Viewer -------------------------------
(***************************************************************************)
(* A viewer of the live map and the account behind its session: the map    *)
(* (PresenceMap) is drawn over one socket, the account is read through the *)
(* cache (AccountAccess).  They share no state, for the map learns of a    *)
(* new role from the account facts (PresenceFacts), and move in any order. *)
(***************************************************************************)
EXTENDS PresenceMap

CONSTANTS Requests, Streams, Passes, Writers, Remote, Ttl, MaxFails   \* AccountAccess

VARIABLES doc, wrote, writing, number, cache, cacheAge, pc, age, got, passed,
          overtaken, target, token, owed, stream, fails               \* AccountAccess

access == INSTANCE AccountAccess WITH due <- owed

ASSUME ViewerAssumption ==
    /\ Ttl \in Nat
    \* A stream is a request; a heartbeat, which is not one, comes to streams.
    /\ Streams \subseteq Requests /\ (Passes # {} => Streams # {})
    /\ Requests \cap Passes = {}

accountVars == <<doc, wrote, writing, number, cache, cacheAge, overtaken, pc, age, got,
                 passed, target, token, owed, stream, fails>>
viewerVars == <<vars, accountVars>>

ViewerInit == Init /\ access!Init

MapMoves == Next /\ UNCHANGED accountVars
AccountMoves == access!Next /\ UNCHANGED vars

ViewerNext == MapMoves \/ AccountMoves

ViewerSpec == ViewerInit /\ [][ViewerNext]_viewerVars /\ Fairness /\ access!Fairness

-----------------------------------------------------------------------------
(* Properties; the map's is NamesAreRight                                  *)

\* A request that comes Ttl after the last write is answered from a copy that
\* has it: AccountAccess.
TtlBoundsStaleness == access!TtlBoundsStaleness

\* In the process that wrote, an older copy is served only if a read that the
\* eviction overtook brought it back: AccountAccess.
OldCopyIsExcused == access!OldCopyIsExcused

\* A stream does not outlive its session or its role for good: AccountAccess.
StreamsFollow == access!StreamsFollow
=============================================================================
