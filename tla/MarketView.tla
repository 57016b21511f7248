----------------------------- MODULE MarketView -----------------------------
(***************************************************************************)
(* useMarket: the live prices of one event on one screen.  A snapshot is   *)
(* fetched into a cache that outlives the screen, and a socket of the      *)
(* screen's own carries ticks and sold-out notices that patch it.  Nothing *)
(* that is published while the socket is down is delivered later; while it *)
(* is up a message may still be lost or overtaken.  A price is known here  *)
(* by the tick that made it.                                               *)
(***************************************************************************)
EXTENDS Integers

CONSTANT MaxTick  \* bound: the market stops moving there

ASSUME MaxTickAssumption == MaxTick \in Nat

VARIABLES
  tick,        \* of the market
  soldOut,     \* the stock status the server would answer
  snapshot,    \* the cached answer: [tick, soldOut], or NoSnapshot
  fetch,       \* Idle, Asked, or the snapshot the server has read for it
  failed,      \* the last fetch gave up
  connection,  \* "closed" (no screen shows prices), "connecting", "live", "reconnecting"
  lastTick,    \* of this socket
  wire,        \* messages on their way to this socket
  gap          \* history: the tick of the market when the socket last came up over a cached snapshot

market == <<tick, soldOut>>
viewVars == <<market, snapshot, fetch, failed, connection, lastTick, wire, gap>>

Snapshots == [tick : 0..MaxTick, soldOut : BOOLEAN]
NoSnapshot == [tick |-> -1, soldOut |-> FALSE]
Idle == [tick |-> -2, soldOut |-> FALSE]
Asked == [tick |-> -3, soldOut |-> FALSE]

TickMessage(t, s) == [kind |-> "market.tick", tick |-> t, soldOut |-> s]
SoldOutMessage == [kind |-> "product.soldout", tick |-> 0, soldOut |-> TRUE]

ViewTypeOK ==
  /\ tick \in 0..MaxTick /\ soldOut \in BOOLEAN /\ failed \in BOOLEAN
  /\ snapshot \in Snapshots \cup {NoSnapshot}
  /\ fetch \in Snapshots \cup {Idle, Asked}
  /\ connection \in {"closed", "connecting", "live", "reconnecting"}
  /\ lastTick \in -1..MaxTick /\ gap \in -1..MaxTick

ViewInit ==
  /\ tick = 0 /\ soldOut = FALSE
  /\ snapshot = NoSnapshot /\ fetch = Asked /\ failed = FALSE
  /\ connection = "closed" /\ lastTick = -1 /\ wire = {} /\ gap = -1

Publish(message) == wire' = IF connection = "live" THEN wire \cup {message} ELSE wire

-----------------------------------------------------------------------------
(* The server: the tick and the stock, and the read of a snapshot.          *)

MarketTicks ==
  /\ tick < MaxTick
  /\ tick' = tick + 1
  /\ Publish(TickMessage(tick', soldOut))
  /\ UNCHANGED <<soldOut, snapshot, fetch, failed, connection, lastTick, gap>>

SellsOut ==
  /\ ~soldOut /\ soldOut' = TRUE
  /\ Publish(SoldOutMessage)
  /\ UNCHANGED <<tick, snapshot, fetch, failed, connection, lastTick, gap>>

\* Released or adjusted stock is told by the next tick or snapshot only.
BackInStock ==
  /\ soldOut /\ soldOut' = FALSE
  /\ UNCHANGED <<tick, snapshot, fetch, failed, connection, lastTick, wire, gap>>

ReadSnapshot ==
  /\ fetch = Asked
  /\ fetch' = [tick |-> tick, soldOut |-> soldOut]
  /\ UNCHANGED <<market, snapshot, failed, connection, lastTick, wire, gap>>

-----------------------------------------------------------------------------
(* The query: one fetch at a time.  Invalidating it starts a new one; the   *)
(* one in flight is dropped if there is something in the cache, and kept as *)
(* it is otherwise.                                                         *)

\* Fault: a fetch in flight is trusted to be recent enough.
Invalidated_Joins == IF fetch # Idle THEN fetch ELSE Asked

Invalidated == IF fetch # Idle /\ snapshot = NoSnapshot THEN fetch ELSE Asked

SnapshotArrives ==
  /\ fetch \in Snapshots
  /\ snapshot' = fetch /\ fetch' = Idle /\ failed' = FALSE
  /\ UNCHANGED <<market, connection, lastTick, wire, gap>>

FetchFails ==
  /\ fetch # Idle
  /\ fetch' = Idle /\ failed' = TRUE
  /\ UNCHANGED <<market, snapshot, connection, lastTick, wire, gap>>

\* The window comes back to the front, or the data was found stale.
RefetchOnFocus ==
  /\ fetch = Idle
  /\ fetch' = Asked
  /\ UNCHANGED <<market, snapshot, failed, connection, lastTick, wire, gap>>

-----------------------------------------------------------------------------
(* The socket of the screen.                                                *)

Connect ==
  /\ connection \in {"connecting", "reconnecting"}
  /\ connection' = "live"
  /\ fetch' = Invalidated
  /\ gap' = IF snapshot = NoSnapshot THEN -1 ELSE tick
  /\ UNCHANGED <<market, snapshot, failed, lastTick, wire>>

Disconnect ==
  /\ connection = "live"
  /\ connection' = "reconnecting" /\ wire' = {}
  /\ UNCHANGED <<market, snapshot, fetch, failed, lastTick, gap>>

ApplyTick(message) ==
  /\ message.kind = "market.tick" /\ message.tick > lastTick
  /\ lastTick' = message.tick
  /\ snapshot' = IF snapshot = NoSnapshot THEN snapshot
                 ELSE [tick |-> message.tick, soldOut |-> message.soldOut]

DiscardTick(message) ==
  /\ message.kind = "market.tick" /\ message.tick <= lastTick
  /\ UNCHANGED <<lastTick, snapshot>>

ApplySoldOut(message) ==
  /\ message.kind = "product.soldout"
  /\ snapshot' = IF snapshot = NoSnapshot THEN snapshot ELSE [snapshot EXCEPT !.soldOut = TRUE]
  /\ UNCHANGED lastTick

Receive ==
  \E message \in wire :
    /\ wire' = wire \ {message}
    /\ ApplyTick(message) \/ DiscardTick(message) \/ ApplySoldOut(message)
    /\ UNCHANGED <<market, fetch, failed, connection, gap>>

LoseMessage ==
  \E message \in wire :
    /\ wire' = wire \ {message}
    /\ UNCHANGED <<market, snapshot, fetch, failed, connection, lastTick, gap>>

\* The effect of a screen that shows prices: its socket, opened and closed.
\* Mounting refetches what is stale.
OpenSocket ==
  /\ connection = "closed"
  /\ connection' = "connecting" /\ lastTick' = -1 /\ wire' = {} /\ gap' = -1
  /\ fetch' \in {fetch, IF fetch = Idle THEN Asked ELSE fetch}
  /\ UNCHANGED <<market, snapshot, failed>>

CloseSocket ==
  /\ connection # "closed"
  /\ connection' = "closed" /\ lastTick' = -1 /\ wire' = {} /\ gap' = -1
  /\ UNCHANGED <<market, snapshot, fetch, failed>>

ViewNext ==
  \/ MarketTicks \/ SellsOut \/ BackInStock \/ ReadSnapshot
  \/ SnapshotArrives \/ FetchFails \/ RefetchOnFocus
  \/ Connect \/ Disconnect \/ Receive \/ LoseMessage \/ OpenSocket \/ CloseSocket

-----------------------------------------------------------------------------
\* Prices are never carried over a gap in the stream (use-market.ts, the
\* connect handler): once the socket is up and its refetch has been answered,
\* nothing on screen is older than the moment the connection came back.
NeverAcrossGap ==
  connection = "live" /\ fetch = Idle /\ ~failed => snapshot.tick >= gap

=============================================================================
