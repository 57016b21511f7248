---------------------------- MODULE DeviceProofs ----------------------------
(***************************************************************************)
(* What the screens of the web client keep, for any number of ticks,       *)
(* drinks, sales, vouchers and saves, however answers overtake each other. *)
(***************************************************************************)
EXTENDS Devices, TLAPS

-----------------------------------------------------------------------------
(* The prices: as long as the socket is up, all that could still become the *)
(* snapshot is from after the gap.                                          *)

MessagesTyped ==
  \A m \in wire : m.kind = "market.tick" => m.tick \in 0..MaxTick /\ m.soldOut \in BOOLEAN

SinceTheGap ==
  IF connection = "live"
  THEN /\ gap <= tick
       /\ \A m \in wire : m.kind = "market.tick" => gap <= m.tick
       /\ fetch \in Snapshots => gap <= fetch.tick
       /\ NeverAcrossGap
  ELSE wire = {}

ViewInv == ViewTypeOK /\ MessagesTyped /\ SinceTheGap

LEMMA NotSnapshots == Idle \notin Snapshots /\ Asked \notin Snapshots /\ Idle # Asked
  BY DEF Idle, Asked, Snapshots

LEMMA ViewStarts == ViewInit => ViewInv
<1> SUFFICES ASSUME ViewInit PROVE ViewInv
  OBVIOUS
<1>1. ViewTypeOK
  <2>1. 0 \in 0..MaxTick /\ -1 \in -1..MaxTick
    BY MaxTickAssumption
  <2>2. lastTick = -1 /\ gap = -1 /\ tick = 0
    BY DEF ViewInit
  <2> QED
    BY <2>1, <2>2 DEF ViewInit, ViewTypeOK
<1>2. MessagesTyped /\ SinceTheGap
  BY DEF ViewInit, MessagesTyped, SinceTheGap
<1> QED
  BY <1>1, <1>2 DEF ViewInv

LEMMA ViewStep ==
  ASSUME ViewInv, ViewNext
  PROVE  ViewInv'
<1> USE MaxTickAssumption, NotSnapshots DEF market
<1>1. CASE MarketTicks
  <2> DEFINE m == TickMessage(tick', soldOut)
  <2>1. m.kind = "market.tick" /\ m.tick = tick + 1 /\ m.soldOut = soldOut
    BY <1>1 DEF MarketTicks, TickMessage
  <2>2. wire' = IF connection = "live" THEN wire \cup {m} ELSE wire
    BY <1>1 DEF MarketTicks, Publish
  <2> HIDE DEF m
  <2> QED
    BY <1>1, <2>1, <2>2
      DEF MarketTicks, ViewInv, ViewTypeOK, MessagesTyped, SinceTheGap, NeverAcrossGap
<1>2. CASE SellsOut
  <2>1. SoldOutMessage.kind # "market.tick"
    BY DEF SoldOutMessage
  <2> QED
    BY <1>2, <2>1
      DEF SellsOut, Publish, ViewInv, ViewTypeOK, MessagesTyped, SinceTheGap, NeverAcrossGap
<1>3. CASE BackInStock
  BY <1>3 DEF BackInStock, ViewInv, ViewTypeOK, MessagesTyped, SinceTheGap, NeverAcrossGap
<1>4. CASE ReadSnapshot
  <2>1. fetch' \in Snapshots /\ fetch'.tick = tick
    BY <1>4 DEF ReadSnapshot, ViewInv, ViewTypeOK, Snapshots
  <2> QED
    BY <1>4, <2>1
      DEF ReadSnapshot, ViewInv, ViewTypeOK, MessagesTyped, SinceTheGap, NeverAcrossGap
<1>5. CASE SnapshotArrives
  BY <1>5 DEF SnapshotArrives, ViewInv, ViewTypeOK, MessagesTyped, SinceTheGap, NeverAcrossGap
<1>6. CASE FetchFails
  BY <1>6 DEF FetchFails, ViewInv, ViewTypeOK, MessagesTyped, SinceTheGap, NeverAcrossGap
<1>7. CASE RefetchOnFocus
  BY <1>7 DEF RefetchOnFocus, ViewInv, ViewTypeOK, MessagesTyped, SinceTheGap, NeverAcrossGap
<1>8. CASE Connect
  <2>1. gap' \in -1..MaxTick /\ gap' <= tick
    BY <1>8 DEF Connect, ViewInv, ViewTypeOK
  <2>2. fetch' \in Snapshots => gap' <= fetch'.tick
    BY <1>8 DEF Connect, Invalidated, ViewInv, ViewTypeOK, Snapshots
  <2>3. fetch' # Idle /\ fetch' \in Snapshots \cup {Asked}
    BY <1>8 DEF Connect, Invalidated, ViewInv, ViewTypeOK
  <2> QED
    BY <1>8, <2>1, <2>2, <2>3
      DEF Connect, ViewInv, ViewTypeOK, MessagesTyped, SinceTheGap, NeverAcrossGap
<1>9. CASE Disconnect
  BY <1>9 DEF Disconnect, ViewInv, ViewTypeOK, MessagesTyped, SinceTheGap
<1>10. CASE Receive
  <2>1. PICK m \in wire :
          /\ wire' = wire \ {m}
          /\ ApplyTick(m) \/ DiscardTick(m) \/ ApplySoldOut(m)
    BY <1>10 DEF Receive
  <2>2. UNCHANGED <<tick, soldOut, fetch, failed, connection, gap>> /\ connection = "live"
    BY <1>10, <2>1 DEF Receive, ViewInv, SinceTheGap
  <2>3. /\ lastTick' \in -1..MaxTick
        /\ snapshot' \in Snapshots \cup {NoSnapshot}
        /\ snapshot'.tick = snapshot.tick \/ snapshot'.tick >= gap
    <3>1. CASE ApplyTick(m)
      <4> DEFINE s == [tick |-> m.tick, soldOut |-> m.soldOut]
      <4>1. s \in Snapshots /\ s.tick >= gap /\ lastTick' \in -1..MaxTick
        BY <2>1, <2>2, <3>1 DEF ApplyTick, ViewInv, ViewTypeOK, MessagesTyped, SinceTheGap, Snapshots
      <4>2. snapshot' = IF snapshot = NoSnapshot THEN snapshot ELSE s
        BY <3>1 DEF ApplyTick
      <4> HIDE DEF s
      <4> QED
        BY <4>1, <4>2 DEF ViewInv, ViewTypeOK
    <3>2. CASE DiscardTick(m)
      BY <3>2 DEF DiscardTick, ViewInv, ViewTypeOK
    <3>3. CASE ApplySoldOut(m)
      <4>1. CASE snapshot = NoSnapshot
        BY <3>3, <4>1 DEF ApplySoldOut, ViewInv, ViewTypeOK
      <4>2. CASE snapshot # NoSnapshot
        <5>1. snapshot \in Snapshots /\ snapshot' = [snapshot EXCEPT !.soldOut = TRUE]
          BY <3>3, <4>2 DEF ApplySoldOut, ViewInv, ViewTypeOK
        <5> QED
          BY <3>3, <5>1 DEF ApplySoldOut, ViewInv, ViewTypeOK, Snapshots
      <4> QED
        BY <4>1, <4>2
    <3> QED
      BY <2>1, <3>1, <3>2, <3>3
  <2>4. snapshot.tick \in Int /\ snapshot'.tick \in Int /\ gap \in Int
    BY <2>3 DEF ViewInv, ViewTypeOK, Snapshots, NoSnapshot
  <2> QED
    BY <2>1, <2>2, <2>3, <2>4 DEF ViewInv, ViewTypeOK, MessagesTyped, SinceTheGap, NeverAcrossGap
<1>11. CASE LoseMessage
  BY <1>11 DEF LoseMessage, ViewInv, ViewTypeOK, MessagesTyped, SinceTheGap, NeverAcrossGap
<1>12. CASE OpenSocket
  BY <1>12 DEF OpenSocket, ViewInv, ViewTypeOK, MessagesTyped, SinceTheGap
<1>13. CASE CloseSocket
  BY <1>13 DEF CloseSocket, ViewInv, ViewTypeOK, MessagesTyped, SinceTheGap
<1> QED
  BY <1>1, <1>2, <1>3, <1>4, <1>5, <1>6, <1>7, <1>8, <1>9, <1>10, <1>11, <1>12, <1>13
    DEF ViewNext

-----------------------------------------------------------------------------
(* The panel: a form holds every dial, so a save replaces what it read.     *)

FormsWhole ==
  /\ params \in submitted /\ submitted \subseteq [Dial -> Level]
  /\ updates \subseteq [id : 1..saves, patch : submitted, base : [Dial -> Level] \cup {Unset}]

PanelInv == PanelTypeOK /\ FormsWhole

LEMMA PanelStarts == PanelInit => PanelInv
  BY PanelAssumption DEF PanelInit, PanelInv, PanelTypeOK, FormsWhole

LEMMA PanelStep ==
  ASSUME PanelInv, PanelNext
  PROVE  PanelInv'
<1>1. ASSUME NEW o \in Organiser, PollDashboard(o) \/ OpenPanel(o) \/ LeavePanel(o) \/ SaveAnswered(o)
      PROVE  PanelInv'
  BY <1>1 DEF PollDashboard, Mounted, OpenPanel, LeavePanel, SaveAnswered, PanelInv, PanelTypeOK,
    FormsWhole
<1>2. ASSUME NEW o \in Organiser, NEW dial \in Dial, NEW level \in Level, TurnDial(o, dial, level)
      PROVE  PanelInv'
  <2>1. draft[o] \in [Dial -> Level]
    BY <1>2 DEF TurnDial, PanelInv, PanelTypeOK
  <2> DEFINE turned == [draft[o] EXCEPT ![dial] = level]
  <2>2. turned \in [Dial -> Level]
    BY <2>1
  <2>3. draft' = [draft EXCEPT ![o] = turned]
    BY <1>2 DEF TurnDial
  <2> HIDE DEF turned
  <2> QED
    BY <1>2, <2>2, <2>3 DEF TurnDial, PanelInv, PanelTypeOK, FormsWhole
<1>3. ASSUME NEW o \in Organiser, Save(o) PROVE PanelInv'
  <2> DEFINE u == [id |-> saves', patch |-> patchOf(o), base |-> Unset]
  <2>1. /\ draft[o] \in [Dial -> Level] /\ submitted' = submitted \cup {draft[o]}
        /\ saves' = saves + 1 /\ saves' \in 0..MaxSaves /\ saves \in Nat
        /\ updates' = updates \cup {u}
    BY <1>3, PanelAssumption DEF Save, PanelInv, PanelTypeOK
  <2>2. u \in [id : 1..saves', patch : submitted', base : [Dial -> Level] \cup {Unset}]
    BY <2>1 DEF patchOf
  <2> HIDE DEF u
  <2>3. FormsWhole'
    BY <1>3, <2>1, <2>2 DEF Save, PanelInv, FormsWhole
  <2>4. \A v \in updates' : v.id \in 1..saves' /\ DOMAIN v.patch \subseteq Dial
    BY <2>3 DEF FormsWhole
  <2> QED
    BY <1>3, <2>1, <2>3, <2>4 DEF Save, PanelInv, PanelTypeOK
<1>4. ASSUME NEW u \in updates, ReadEngineParams(u) PROVE PanelInv'
  <2> DEFINE v == [u EXCEPT !.base = params]
  <2>1. v \in [id : 1..saves, patch : submitted, base : [Dial -> Level] \cup {Unset}]
    BY DEF PanelInv, FormsWhole
  <2>2. updates' = (updates \ {u}) \cup {v}
    BY <1>4 DEF ReadEngineParams
  <2> HIDE DEF v
  <2>3. FormsWhole'
    BY <1>4, <2>1, <2>2 DEF ReadEngineParams, PanelInv, FormsWhole
  <2>4. \A w \in updates' : w.id \in 1..saves' /\ DOMAIN w.patch \subseteq Dial
    BY <2>3 DEF FormsWhole
  <2> QED
    BY <1>4, <2>3, <2>4 DEF ReadEngineParams, PanelInv, PanelTypeOK
<1>5. ASSUME NEW u \in updates, WriteEngineParams(u) PROVE PanelInv'
  <2>1. u.patch \in submitted /\ u.patch \in [Dial -> Level]
    BY DEF PanelInv, FormsWhole
  <2>2. Merged(u.base, u.patch) = u.patch
    BY <2>1 DEF Merged
  <2> QED
    BY <1>5, <2>1, <2>2 DEF WriteEngineParams, PanelInv, PanelTypeOK, FormsWhole
<1>6. ASSUME NEW u \in updates, UpdateLost(u) PROVE PanelInv'
  BY <1>6 DEF UpdateLost, PanelInv, PanelTypeOK, FormsWhole
<1> QED
  BY <1>1, <1>2, <1>3, <1>4, <1>5, <1>6 DEF PanelNext

-----------------------------------------------------------------------------
(* The scanner: what is on screen, asked for or answered is all a voucher   *)
(* has left, and a tick is about the voucher it was made for.               *)

(* Alcohol that is offered for a voucher was checked for it.                *)
Checked(v, items) == HasAlcohol(items) => v \in checked

LookupsHonest ==
  /\ lookups \subseteq [voucher : Voucher, by : {"code", "phone"}, items : SUBSET Drink, read : BOOLEAN]
  /\ \A l \in lookups : l.read => pending[l.voucher] \subseteq l.items

ScreenHonest ==
  state.kind = "found" =>
    /\ pending[state.voucher] \subseteq state.items
    /\ ageTicked => Checked(state.voucher, state.items)

RedeemChecked ==
  redeeming # Free =>
    /\ redeeming \in [voucher : Voucher, items : SUBSET Drink, ageChecked : BOOLEAN, done : BOOLEAN]
    /\ Checked(redeeming.voucher, redeeming.items)
    /\ Checked(redeeming.voucher, pending[redeeming.voucher])
    /\ redeeming.done => redeeming.items = pending[redeeming.voucher]

ScannerInv ==
  ScannerTypeOK /\ LookupsHonest /\ ScreenHonest /\ RedeemChecked /\ ScannerAgeChecked

LEMMA ScannerStarts == ScannerInit => ScannerInv
<1> SUFFICES ASSUME ScannerInit PROVE ScannerInv
  OBVIOUS
<1>1. state.kind = "scanning" /\ state.items = {}
  BY DEF ScannerInit, Scanning
<1> QED
  BY <1>1, VoucherAssumption DEF ScannerInit, ScannerInv, ScannerTypeOK, LookupsHonest,
    ScreenHonest, RedeemChecked, ScannerAgeChecked, HasAlcohol

LEMMA NothingChecked == \A v \in Voucher : Checked(v, {})
  BY DEF Checked, HasAlcohol

(* The screen is all that changes.                                          *)
LEMMA ScreenStep ==
  ASSUME ScannerInv, UNCHANGED <<pending, poured, checked>>,
         LookupsHonest', RedeemChecked', ageTicked' \in BOOLEAN,
         state'.kind \in {"scanning", "found", "error"}, state'.items \subseteq Drink,
         state'.kind = "found" => state'.voucher \in Voucher,
         ScreenHonest'
  PROVE  ScannerInv'
  BY DEF ScannerInv, ScannerTypeOK, ScannerAgeChecked

LEMMA ScannerStep ==
  ASSUME ScannerInv, ScannerNext
  PROVE  ScannerInv'
<1>0. /\ Scanning.kind = "scanning" /\ Failed.kind = "error"
      /\ Scanning.items = {} /\ Failed.items = {}
      /\ \A v, items : /\ Found(v, items).kind = "found" /\ Found(v, items).voucher = v
                        /\ Found(v, items).items = items
  BY DEF Found, Scanning, Failed
<1>1. ASSUME NEW v \in Voucher, NEW by \in {"code", "phone"}, LookUp(v, by) PROVE ScannerInv'
  <2> DEFINE l == [voucher |-> v, by |-> by, items |-> {}, read |-> FALSE]
  <2>1. /\ l \in [voucher : Voucher, by : {"code", "phone"}, items : SUBSET Drink, read : BOOLEAN]
        /\ ~l.read
    OBVIOUS
  <2>2. lookups' = lookups \cup {l} /\ UNCHANGED pending
    BY <1>1 DEF LookUp, RestOfScanner, vouchers
  <2> HIDE DEF l
  <2>3. LookupsHonest'
    BY <2>1, <2>2 DEF ScannerInv, LookupsHonest
  <2> QED
    BY <1>1, <2>3, ScreenStep
      DEF LookUp, RestOfScanner, vouchers, ScannerInv, ScannerTypeOK, ScreenHonest, RedeemChecked,
        Checked
<1>2. CASE HandleLookup
  <2>1. PICK l \in lookups :
          lookups' = (lookups \ {l}) \cup {[l EXCEPT !.read = TRUE, !.items = pending[l.voucher]]}
    BY <1>2 DEF HandleLookup
  <2> DEFINE m == [l EXCEPT !.read = TRUE, !.items = pending[l.voucher]]
  <2>2. /\ m \in [voucher : Voucher, by : {"code", "phone"}, items : SUBSET Drink, read : BOOLEAN]
        /\ m.items = pending[m.voucher]
    BY DEF ScannerInv, ScannerTypeOK, LookupsHonest
  <2>3. lookups' = (lookups \ {l}) \cup {m}
    BY <2>1
  <2> HIDE DEF m
  <2>4. LookupsHonest'
    BY <1>2, <2>2, <2>3 DEF HandleLookup, RestOfScanner, vouchers, ScannerInv, LookupsHonest
  <2> QED
    BY <1>2, <2>4, ScreenStep
      DEF HandleLookup, RestOfScanner, vouchers, ScannerInv, ScannerTypeOK, ScreenHonest,
        RedeemChecked, Checked
<1>3. CASE LookupArrives
  <2>1. PICK l \in lookups : /\ l.read /\ lookups' = lookups \ {l}
                             /\ ageTicked' = TickAfter(l) /\ state' = Found(l.voucher, l.items)
    BY <1>3 DEF LookupArrives
  <2>2. UNCHANGED <<pending, poured, checked, redeeming>> /\ ageTicked' = FALSE
    BY <1>3, <2>1 DEF LookupArrives, RestOfScanner, vouchers, TickAfter
  <2>3. /\ state'.kind = "found" /\ state'.voucher = l.voucher /\ state'.items = l.items
        /\ l.voucher \in Voucher /\ l.items \subseteq Drink
        /\ pending[l.voucher] \subseteq l.items
    BY <1>0, <2>1 DEF ScannerInv, LookupsHonest
  <2>4. LookupsHonest' /\ RedeemChecked'
    BY <2>1, <2>2 DEF ScannerInv, LookupsHonest, RedeemChecked, Checked
  <2>5. ScreenHonest'
    BY <2>2, <2>3 DEF ScreenHonest
  <2> QED
    BY <2>2, <2>3, <2>4, <2>5, ScreenStep
<1>4. CASE LookupFails \/ NoCamera \/ ScanAnother
  <2>1. /\ UNCHANGED <<pending, poured, checked, redeeming, ageTicked>>
        /\ lookups' \subseteq lookups /\ state' \in {Failed, Scanning}
    BY <1>4 DEF LookupFails, NoCamera, ScanAnother, RestOfScanner, vouchers
  <2>2. state'.kind \in {"error", "scanning"} /\ state'.items = {}
    BY <1>0, <2>1
  <2>3. LookupsHonest' /\ RedeemChecked'
    BY <2>1 DEF ScannerInv, LookupsHonest, RedeemChecked, Checked
  <2> QED
    BY <2>1, <2>2, <2>3, ScreenStep DEF ScannerInv, ScannerTypeOK, ScreenHonest
<1>5. CASE TickAge
  <2>1. /\ UNCHANGED <<pending, poured, state, lookups, redeeming>>
        /\ ageTicked' \in BOOLEAN /\ checked \subseteq checked' /\ checked' \subseteq Voucher
        /\ ageTicked' => state.voucher \in checked'
    BY <1>5 DEF TickAge, ScannerInv, ScannerTypeOK
  <2> QED
    BY <2>1 DEF ScannerInv, ScannerTypeOK, LookupsHonest, ScreenHonest, RedeemChecked, Checked,
      ScannerAgeChecked
<1>6. ASSUME NEW items \in SUBSET Drink, Deliver(items) PROVE ScannerInv'
  <2> DEFINE r == [voucher |-> state.voucher, items |-> items, ageChecked |-> ageTicked, done |-> FALSE]
  <2>1. /\ r \in [voucher : Voucher, items : SUBSET Drink, ageChecked : BOOLEAN, done : BOOLEAN]
        /\ r.voucher = state.voucher /\ r.items = items /\ ~r.done
    BY <1>6 DEF Deliver, ScannerInv, ScannerTypeOK
  <2>2. redeeming' = r /\ UNCHANGED <<pending, poured, checked, state, ageTicked, lookups>>
    BY <1>6 DEF Deliver, RestOfScanner, vouchers
  <2>3. Checked(state.voucher, items) /\ Checked(state.voucher, pending[state.voucher])
    BY <1>6 DEF Deliver, ScannerInv, ScreenHonest, Checked, HasAlcohol
  <2> HIDE DEF r
  <2>4. RedeemChecked'
    BY <2>1, <2>2, <2>3 DEF RedeemChecked, Checked
  <2> QED
    BY <2>2, <2>4, ScreenStep DEF ScannerInv, ScannerTypeOK, LookupsHonest, ScreenHonest, Checked
<1>7. CASE HandleRedeem
  <2> DEFINE v == redeeming.voucher
  <2>1. /\ redeeming # Free /\ v \in Voucher /\ redeeming.items \subseteq Drink
        /\ Checked(v, redeeming.items) /\ Checked(v, pending[v])
    BY <1>7 DEF HandleRedeem, ScannerInv, RedeemChecked, Free
  <2>2. /\ pending' = [pending EXCEPT ![v] = @ \ redeeming.items]
        /\ poured' = [poured EXCEPT ![v] = @ \cup redeeming.items]
        /\ UNCHANGED <<checked, state, ageTicked, lookups>>
    BY <1>7 DEF HandleRedeem
  <2>3. /\ pending' \in [Voucher -> SUBSET Drink] /\ poured' \in [Voucher -> SUBSET Drink]
        /\ \A w \in Voucher : pending'[w] \subseteq pending[w]
        /\ \A w \in Voucher : poured'[w] \subseteq
             poured[w] \cup IF w = v THEN redeeming.items ELSE {}
    BY <2>1, <2>2 DEF ScannerInv, ScannerTypeOK
  <2> DEFINE r == [redeeming EXCEPT !.done = TRUE, !.items = pending'[v]]
  <2>4. /\ r \in [voucher : Voucher, items : SUBSET Drink, ageChecked : BOOLEAN, done : BOOLEAN]
        /\ r.voucher = v /\ r.items = pending'[v]
    BY <2>1, <2>3 DEF ScannerInv, RedeemChecked
  <2>5. redeeming' = r
    BY <1>7 DEF HandleRedeem
  <2> HIDE DEF r
  <2>6. RedeemChecked'
    BY <2>1, <2>2, <2>3, <2>4, <2>5 DEF RedeemChecked, Checked, HasAlcohol
  <2>7. ScannerAgeChecked'
    BY <2>1, <2>2, <2>3 DEF ScannerInv, ScannerAgeChecked, Checked, HasAlcohol
  <2>8. LookupsHonest' /\ ScreenHonest' /\ ScannerTypeOK'
    BY <2>2, <2>3 DEF ScannerInv, LookupsHonest, ScreenHonest, ScannerTypeOK, Checked
  <2> QED
    BY <2>6, <2>7, <2>8 DEF ScannerInv
<1>8. CASE RedeemAnswered
  <2>1. /\ UNCHANGED <<pending, poured, checked, ageTicked, lookups>>
        /\ redeeming # Free /\ redeeming' = Free
    BY <1>8 DEF RedeemAnswered, RestOfScanner, vouchers
  <2>2. LookupsHonest' /\ RedeemChecked'
    BY <2>1 DEF ScannerInv, LookupsHonest, RedeemChecked
  <2>3. CASE state' = Failed
    BY <1>0, <2>1, <2>2, <2>3, ScreenStep DEF ScannerInv, ScannerTypeOK, ScreenHonest
  <2>4. CASE redeeming.done /\ state' = Found(redeeming.voucher, redeeming.items)
    <3>1. /\ state'.kind = "found" /\ state'.voucher = redeeming.voucher
          /\ state'.items = redeeming.items
          /\ redeeming.voucher \in Voucher /\ redeeming.items \subseteq Drink
          /\ redeeming.items = pending[redeeming.voucher]
          /\ Checked(redeeming.voucher, redeeming.items)
      BY <1>0, <2>1, <2>4 DEF ScannerInv, RedeemChecked
    <3>2. ScreenHonest'
      BY <2>1, <3>1 DEF ScreenHonest, Checked
    <3> QED
      BY <2>1, <2>2, <3>1, <3>2, ScreenStep DEF ScannerInv, ScannerTypeOK
  <2> QED
    BY <1>8, <2>3, <2>4 DEF RedeemAnswered
<1> QED
  BY <1>1, <1>2, <1>3, <1>4, <1>5, <1>6, <1>7, <1>8 DEF ScannerNext

-----------------------------------------------------------------------------
(* The till: a sale with alcohol, from its quote to what is handed over of  *)
(* it, was rung up after somebody had ticked the box since the till was     *)
(* last cleared; the tick on screen never is an older one.                  *)

Adult(s, items) == HasAlcohol(items) => rungUp[s] # "no"

TickHonest ==
  /\ ageChecked => ticked # "no"
  /\ \A s \in Sales : s > opened => rungUp[s] = "no"

Calls == [what : {"quote", "sale", "deliver"}, id : Sales, items : SUBSET Drink,
          flag : BOOLEAN, done : BOOLEAN]

TillCalls ==
  /\ till \subseteq Calls
  /\ \A call \in till : call.what = "quote" /\ call.flag => Adult(call.id, call.items)

StageNamed == stage.kind # "building" => stage.id \in Sales

SalesChecked ==
  /\ \A s \in Sales : Adult(s, sale[s].items) /\ Adult(s, sold[s])
  /\ TillAgeChecked

TillInv == TillTypeOK /\ TillCalls /\ StageNamed /\ TickHonest /\ SalesChecked

LEMMA TillStarts == TillInit => TillInv
<1> SUFFICES ASSUME TillInit PROVE TillInv
  OBVIOUS
<1>1. /\ NoLines.items = {}
      /\ NoLines \in [items : SUBSET Drink,
                      status : {"none", "ACTIVE", "EXPIRED", "CONSUMED"}]
      /\ Building \in [kind : {"building", "paying", "sold"}, id : Sales \cup {NoSale}]
      /\ Building.kind = "building"
  BY DEF NoLines, Building
<1>2. TillTypeOK
  <2>1. /\ sale \in [Sales -> [items : SUBSET Drink,
                               status : {"none", "ACTIVE", "EXPIRED", "CONSUMED"}]]
        /\ sold \in [Sales -> SUBSET Drink] /\ served \in [Sales -> SUBSET Drink]
    BY <1>1 DEF TillInit
  <2>2. {opened, opening} \subseteq 0..MaxSales
    BY SalesAssumption DEF TillInit, NoSale
  <2> QED
    BY <1>1, <2>1, <2>2 DEF TillInit, TillTypeOK, Ticks
<1> QED
  BY <1>1, <1>2 DEF TillInit, TillInv, TillCalls, StageNamed, TickHonest, SalesChecked,
    TillAgeChecked, Adult, HasAlcohol

(* A step of the screen alone.                                              *)
Kept(before, after) == \A s \in Sales : before[s] # "no" => after[s] # "no"

LEMMA TillMoves ==
  ASSUME TillInv, TillTypeOK', UNCHANGED <<sale, sold, served>>, Kept(rungUp, rungUp'),
         TillCalls', StageNamed', TickHonest'
  PROVE  TillInv'
  BY DEF TillInv, SalesChecked, TillAgeChecked, Adult, Kept

(* A call that is sent.                                                     *)
LEMMA Sends ==
  ASSUME TillInv, NEW what \in {"quote", "sale", "deliver"}, NEW id \in Sales,
         NEW items \in SUBSET Drink, NEW flag \in BOOLEAN, Send(what, id, items, flag),
         Kept(rungUp, rungUp'),
         what = "quote" /\ flag /\ HasAlcohol(items) => rungUp'[id] # "no"
  PROVE  TillCalls'
<1> DEFINE c == [what |-> what, id |-> id, items |-> items, flag |-> flag, done |-> FALSE]
<1>1. c \in Calls /\ c.what = what /\ c.flag = flag /\ c.id = id /\ c.items = items
  BY DEF Calls
<1>2. till' = till \cup {c}
  BY DEF Send
<1> HIDE DEF c
<1> QED
  BY <1>1, <1>2 DEF TillInv, TillCalls, Calls, Adult, Kept

LEMMA TillStep ==
  ASSUME TillInv, TillNext
  PROVE  TillInv'
<1> USE DEF RestOfTill, books, display
<1>0. Kept(rungUp, rungUp)
  BY DEF Kept
<1>1. ASSUME NEW d \in Drink, ListChanges(d) \/ RingUp(d) \/ TakeOff(d) PROVE TillInv'
  <2>1. UNCHANGED <<sale, sold, served, ticked, rungUp, ageChecked, stage, received, opened, opening, till>>
    BY <1>1 DEF ListChanges, RingUp, TakeOff
  <2>2. listed' \subseteq Drink /\ lines' \subseteq Drink
    BY <1>1 DEF ListChanges, RingUp, TakeOff, TillInv, TillTypeOK
  <2>3. TillTypeOK' /\ TillCalls' /\ StageNamed' /\ TickHonest'
    BY <2>1, <2>2 DEF TillInv, TillTypeOK, TillCalls, Adult, StageNamed, TickHonest
  <2> QED
    BY <1>0, <2>1, <2>3, TillMoves
<1>2. CASE \/ CheckAge \/ ClearSale \/ NextCustomer \/ CancelSale \/ NewSale
           \/ \E amount \in {"fine", "short"} : TypeCash(amount)
  <2>1. /\ UNCHANGED <<sale, sold, served, rungUp, listed, opened, till>>
        /\ lines' \in {lines, {}} /\ ageChecked' \in BOOLEAN /\ stage' \in {stage, Building}
        /\ received' \in {"fine", "short"} /\ opening' \in {opening, NoSale}
    BY <1>2 DEF CheckAge, ClearSale, NextCustomer, CancelSale, NewSale, TypeCash, TillInv,
      TillTypeOK
  <2>2. ticked' \in Ticks /\ (ageChecked' => ticked' # "no")
    <3>1. ticked \in Ticks /\ (ageChecked => ticked # "no")
      BY DEF TillInv, TillTypeOK, TickHonest
    <3> QED
      BY <1>2, <3>1
      DEF CheckAge, ClearSale, NextCustomer, CancelSale, NewSale, TypeCash, Ticks
  <2>3. /\ Building \in [kind : {"building", "paying", "sold"}, id : Sales \cup {NoSale}]
        /\ Building.kind = "building" /\ NoSale \in 0..MaxSales
    BY SalesAssumption DEF Building, NoSale
  <2>4. TillTypeOK' /\ TillCalls' /\ StageNamed' /\ TickHonest'
    BY <2>1, <2>2, <2>3 DEF TillInv, TillTypeOK, TillCalls, Adult, StageNamed, TickHonest
  <2> QED
    BY <1>0, <2>1, <2>4, TillMoves
<1>3. CASE OpenSale
  <2>1. /\ opened' = opened + 1 /\ opening' = opened' /\ opened' \in Sales
        /\ opened' \in 0..MaxSales
    BY <1>3, SalesAssumption DEF OpenSale, Sales, TillInv, TillTypeOK
  <2>2. /\ UNCHANGED <<sale, sold, served, ticked, listed, lines, ageChecked, stage, received>>
        /\ rungUp' = IF HasAlcohol(lines) THEN [rungUp EXCEPT ![opened'] = ticked] ELSE rungUp
        /\ Send("quote", opened', lines, ageChecked)
    BY <1>3 DEF OpenSale
  <2>3. lines \in SUBSET Drink /\ ageChecked \in BOOLEAN /\ rungUp \in [Sales -> Ticks]
    BY DEF TillInv, TillTypeOK
  <2>4. /\ Kept(rungUp, rungUp')
        /\ ageChecked /\ HasAlcohol(lines) => rungUp'[opened'] # "no"
    BY <2>1, <2>2, <2>3 DEF TillInv, TillTypeOK, TickHonest, Kept
  <2>5. TillTypeOK' /\ StageNamed' /\ TickHonest'
    BY <2>1, <2>2 DEF TillInv, TillTypeOK, StageNamed, TickHonest, Sales
  <2>6. TillCalls'
    BY <2>1, <2>2, <2>3, <2>4, Sends
  <2> QED
    BY <2>2, <2>4, <2>5, <2>6, TillMoves
<1>4. CASE ConfirmSale
  <2>1. /\ UNCHANGED <<sale, sold, served, ticked, rungUp, listed, lines, ageChecked, stage, received, opened, opening>>
        /\ Send("sale", stage.id, {}, FALSE)
    BY <1>4 DEF ConfirmSale
  <2>2. TillTypeOK' /\ StageNamed' /\ TickHonest'
    BY <2>1 DEF TillInv, TillTypeOK, StageNamed, TickHonest
  <2>3. stage.id \in Sales
    BY <1>4 DEF ConfirmSale, TillInv, StageNamed
  <2>4. TillCalls'
    BY <1>0, <2>1, <2>3, Sends
  <2> QED
    BY <1>0, <2>1, <2>2, <2>4, TillMoves
<1>5. CASE DeliverNow
  <2>1. /\ UNCHANGED <<sale, sold, served, ticked, rungUp, listed, lines, ageChecked, stage, received, opened, opening>>
        /\ Send("deliver", stage.id, sale[stage.id].items, TRUE)
    BY <1>5 DEF DeliverNow
  <2>2. TillTypeOK' /\ StageNamed' /\ TickHonest'
    BY <2>1 DEF TillInv, TillTypeOK, StageNamed, TickHonest
  <2>3. stage.id \in Sales /\ sale[stage.id].items \in SUBSET Drink
    BY <1>5 DEF DeliverNow, TillInv, TillTypeOK, StageNamed
  <2>4. TillCalls'
    BY <1>0, <2>1, <2>3, Sends
  <2> QED
    BY <1>0, <2>1, <2>2, <2>4, TillMoves
<1>6. CASE HandleTill
  <2>1. PICK call \in till :
          /\ HandleTillQuote(call) \/ HandleSale(call) \/ HandleDeliver(call)
          /\ till' = (till \ {call}) \cup {[call EXCEPT !.done = TRUE]}
    BY <1>6 DEF HandleTill
  <2> DEFINE c == [call EXCEPT !.done = TRUE]
  <2>2. /\ call \in Calls /\ c \in Calls /\ c.what = call.what /\ c.flag = call.flag /\ c.id = call.id
        /\ c.items = call.items
    BY DEF TillInv, TillCalls, Calls
  <2>3. till' = (till \ {call}) \cup {c}
    BY <2>1
  <2> HIDE DEF c
  <2>4. UNCHANGED <<ticked, rungUp, listed, lines, ageChecked, stage, received, opened, opening>>
    BY <1>6 DEF HandleTill
  <2>5. TillCalls' /\ StageNamed' /\ TickHonest'
    BY <2>2, <2>3, <2>4 DEF TillInv, TillCalls, Adult, StageNamed, TickHonest
  <2>6. call.id \in Sales /\ call.items \subseteq Drink /\ call.flag \in BOOLEAN
    BY <2>2 DEF Calls
  <2>7. CASE HandleTillQuote(call)
    <3> DEFINE q == [items |-> call.items, status |-> "ACTIVE"]
    <3>1. /\ q \in [items : SUBSET Drink,
                    status : {"none", "ACTIVE", "EXPIRED", "CONSUMED"}]
          /\ q.items = call.items
      BY <2>6
    <3>2. sale' = [sale EXCEPT ![call.id] = q] /\ UNCHANGED <<sold, served>>
      BY <2>7 DEF HandleTillQuote
    <3>3. Adult(call.id, call.items)
      BY <2>7 DEF HandleTillQuote, MayQuote, TillInv, TillCalls, Adult
    <3> HIDE DEF q
    <3>4. TillTypeOK'
      BY <2>4, <2>6, <3>1, <3>2 DEF TillInv, TillTypeOK
    <3>5. SalesChecked'
      BY <2>4, <2>6, <3>1, <3>2, <3>3 DEF TillInv, TillTypeOK, SalesChecked, TillAgeChecked, Adult
    <3> QED
      BY <2>5, <3>4, <3>5 DEF TillInv
  <2>8. CASE HandleSale(call)
    <3>1. /\ sale' = [sale EXCEPT ![call.id].status = "CONSUMED"]
          /\ sold' = [sold EXCEPT ![call.id] = sale[call.id].items]
          /\ UNCHANGED served
      BY <2>8 DEF HandleSale
    <3>2. TillTypeOK' /\ \A s \in Sales : sale'[s].items = sale[s].items
      BY <2>4, <2>6, <3>1 DEF TillInv, TillTypeOK
    <3>3. SalesChecked'
      BY <2>4, <2>6, <3>1, <3>2 DEF TillInv, TillTypeOK, SalesChecked, TillAgeChecked, Adult
    <3> QED
      BY <2>5, <3>2, <3>3 DEF TillInv
  <2>9. CASE HandleDeliver(call)
    <3>1. /\ sold' = [sold EXCEPT ![call.id] = @ \ call.items]
          /\ served' = [served EXCEPT ![call.id] = @ \cup call.items]
          /\ UNCHANGED sale /\ call.items \subseteq sold[call.id]
      BY <2>9 DEF HandleDeliver, MayHandOver
    <3>2. TillTypeOK'
      BY <2>4, <2>6, <3>1 DEF TillInv, TillTypeOK
    <3>3. \A s \in Sales : sold'[s] \subseteq sold[s] /\ served'[s] \subseteq served[s] \cup sold[s]
      BY <2>6, <3>1 DEF TillInv, TillTypeOK
    <3>4. SalesChecked'
      BY <2>4, <3>1, <3>3 DEF TillInv, SalesChecked, TillAgeChecked, Adult, HasAlcohol
    <3> QED
      BY <2>5, <3>2, <3>4 DEF TillInv
  <2> QED
    BY <2>1, <2>7, <2>8, <2>9
<1>7. CASE TillQuoteRunsOut
  <2>1. /\ \E s \in Sales : sale' = [sale EXCEPT ![s].status = "EXPIRED"]
        /\ UNCHANGED <<sold, served, ticked, rungUp, listed, lines, ageChecked, stage, received,
                       opened, opening, till>>
    BY <1>7 DEF TillQuoteRunsOut
  <2>2. TillTypeOK' /\ \A s \in Sales : sale'[s].items = sale[s].items
    BY <2>1 DEF TillInv, TillTypeOK
  <2> QED
    BY <2>1, <2>2 DEF TillInv, TillCalls, StageNamed, TickHonest, SalesChecked, TillAgeChecked, Adult
<1>8. CASE TillAnswered
  <2>1. PICK call \in till :
          /\ till' = till \ {call}
          /\ opening' = IF call.what = "quote" /\ call.id = opening THEN NoSale ELSE opening
          /\ \/ stage' = [kind |-> "paying", id |-> call.id] /\ received' \in {received, "fine"}
             \/ stage' = [kind |-> "sold", id |-> call.id] /\ UNCHANGED received
             \/ UNCHANGED <<stage, received>>
    BY <1>8 DEF TillAnswered
  <2>2. UNCHANGED <<sale, sold, served, ticked, rungUp, listed, lines, ageChecked, opened>>
    BY <1>8 DEF TillAnswered
  <2>3. call.id \in Sales /\ NoSale \in 0..MaxSales
    BY SalesAssumption DEF TillInv, TillCalls, Calls, NoSale
  <2>4. /\ stage' \in [kind : {"building", "paying", "sold"}, id : Sales \cup {NoSale}]
        /\ StageNamed'
    BY <2>1, <2>3 DEF TillInv, TillTypeOK, StageNamed
  <2>5. TillTypeOK' /\ TillCalls' /\ TickHonest'
    BY <2>1, <2>2, <2>3, <2>4 DEF TillInv, TillTypeOK, TillCalls, Adult, TickHonest
  <2> QED
    BY <1>0, <2>2, <2>4, <2>5, TillMoves
<1> QED
  BY <1>1, <1>2, <1>3, <1>4, <1>5, <1>6, <1>7, <1>8 DEF TillNext

-----------------------------------------------------------------------------
(* The phone: a quote is made once, and from then on what it locks is what  *)
(* any checkout shows of it and what any order of it was sent for.          *)

Quote == [owner : Nat, qty : Nat, price : Nat,
          status : {"none", "ACTIVE", "EXPIRED", "CONSUMED"}]
PhoneCalls == [what : {"quote", "order"}, id : QuoteIds, by : Nat, qty : Nat, done : BOOLEAN]
Made(q) == quotes[q].status # "none"

QuotesMadeOnce ==
  /\ quotes \in [QuoteIds -> Quote] /\ calls \subseteq PhoneCalls
  /\ \A q \in QuoteIds : Made(q) => q <= asked
  /\ \A c \in calls : c.what = "quote" => c.id <= asked /\ (c.done <=> Made(c.id))
  /\ \A c, d \in calls : c.what = "quote" /\ d.what = "quote" /\ c.id = d.id => c = d

ShownIsLocked ==
  shown # Nothing => shown.id \in QuoteIds /\ Made(shown.id) /\ shown = Locked(shown.id)

SentAsShown ==
  /\ agreed = [q \in QuoteIds |-> agreed[q]]
  /\ \A q \in QuoteIds : agreed[q] # {} => Made(q) /\ agreed[q] = {Locked(q)}
  /\ \A c \in calls : c.what = "order" => agreed[c.id] # {}
  /\ \A q \in QuoteIds : orders[q] # "none" => agreed[q] # {}

PhoneInv == PhoneTypeOK /\ QuotesMadeOnce /\ ShownIsLocked /\ SentAsShown

LEMMA PhoneStarts == PhoneInit => PhoneInv
<1> SUFFICES ASSUME PhoneInit PROVE PhoneInv
  OBVIOUS
<1>1. NoLock \in Quote /\ NoLock.status = "none" /\ Nothing.id = NoQuote
  BY DEF NoLock, Quote, Nothing
<1>2. {0, 1} \subseteq 0..MaxQuotes + 1 /\ 0 \in 0..MaxQuotes /\ 0 \in 0..MaxPrice
      /\ 0 \in 0..MaxPeople /\ 0 \in 0..MAX_PER_PRODUCT
  BY PhoneAssumption
<1>3. orders \in [QuoteIds -> OrderStatuses] /\ seen \in [QuoteIds -> OrderStatuses]
  BY DEF PhoneInit, OrderStatuses
<1>4. PhoneTypeOK
  BY <1>1, <1>2, <1>3 DEF PhoneInit, PhoneTypeOK, Basket
<1> QED
  BY <1>1, <1>4 DEF PhoneInit, PhoneInv, QuotesMadeOnce, ShownIsLocked, SentAsShown, Made

(* A step that leaves quotes, orders and calls alone.                       *)
LEMMA PhoneMoves ==
  ASSUME PhoneInv, PhoneTypeOK', UNCHANGED <<quotes, orders, calls, asked, agreed>>,
         shown' \in {shown, Nothing}
  PROVE  PhoneInv'
  BY DEF PhoneInv, QuotesMadeOnce, ShownIsLocked, SentAsShown, Made, Locked

LEMMA PhoneAsks ==
  ASSUME PhoneInv, AskQuote, UNCHANGED <<quotes, orders, agreed, shown>>
  PROVE  /\ asked' \in 0..MaxQuotes /\ asking' = "pending"
         /\ PhoneTypeOK' => PhoneInv'
<1> DEFINE c == [what |-> "quote", id |-> asked', by |-> who, qty |-> qty, done |-> FALSE]
<1>1. /\ asked' = asked + 1 /\ asked \in Nat /\ asked' \in QuoteIds /\ asked' \in 0..MaxQuotes
      /\ asking' = "pending" /\ calls' = calls \cup {c}
  BY PhoneAssumption DEF AskQuote, PhoneInv, PhoneTypeOK, QuoteIds
<1>2. c \in PhoneCalls /\ c.what = "quote" /\ c.id = asked + 1 /\ ~c.done
  BY <1>1, PhoneAssumption DEF PhoneCalls, PhoneInv, PhoneTypeOK
<1> HIDE DEF c
<1>3. ~Made(asked + 1)
  BY <1>1 DEF PhoneInv, QuotesMadeOnce
<1>4. QuotesMadeOnce'
  <2>1. \A q \in QuoteIds : q \in Nat
    BY DEF QuoteIds
  <2>2. \A d \in calls : d.id \in QuoteIds
    BY DEF PhoneInv, QuotesMadeOnce, PhoneCalls
  <2>3. \A d \in calls : d.what = "quote" => d.id <= asked /\ d.id \in Nat /\ d.id # c.id
    <3> SUFFICES ASSUME NEW d \in calls, d.what = "quote"
                 PROVE  d.id <= asked /\ d.id \in Nat /\ d.id # c.id
      OBVIOUS
    <3>1. d.id <= asked
      BY DEF PhoneInv, QuotesMadeOnce
    <3>2. d.id \in Nat
      BY <2>1, <2>2
    <3>3. c.id = asked + 1 /\ asked \in Nat
      BY <1>1, <1>2
    <3> QED
      BY <3>1, <3>2, <3>3
  <2>4. \A d, e \in calls' : d.what = "quote" /\ e.what = "quote" /\ d.id = e.id => d = e
    BY <1>1, <2>3 DEF PhoneInv, QuotesMadeOnce
  <2>5. \A q \in QuoteIds : Made(q)' => q <= asked'
    BY <1>1, <2>1 DEF PhoneInv, QuotesMadeOnce, Made
  <2>6. \A d \in calls' : d.what = "quote" => d.id <= asked' /\ (d.done <=> Made(d.id)')
    BY <1>1, <1>2, <1>3, <2>3 DEF PhoneInv, QuotesMadeOnce, Made
  <2> QED
    BY <1>1, <1>2, <2>4, <2>5, <2>6 DEF PhoneInv, QuotesMadeOnce, Made
<1>5. ShownIsLocked' /\ SentAsShown'
  BY <1>1, <1>2 DEF PhoneInv, ShownIsLocked, SentAsShown, Made, Locked
<1> QED
  BY <1>1, <1>4, <1>5 DEF PhoneInv

(* A quote that leaves its status keeps what it locks.                      *)
LEMMA StatusMoves ==
  ASSUME QuotesMadeOnce, NEW q \in QuoteIds, NEW status \in {"EXPIRED", "CONSUMED"}, Made(q),
         quotes' = [quotes EXCEPT ![q].status = status]
  PROVE  /\ quotes' \in [QuoteIds -> Quote]
         /\ \A p \in QuoteIds : Made(p)' = Made(p) /\ Locked(p)' = Locked(p)
  BY DEF QuotesMadeOnce, Quote, Made, Locked

LEMMA PhoneStep ==
  ASSUME PhoneInv, PhoneNext
  PROVE  PhoneInv'
<1> USE DEF server, post, checkout, cartOnly, serverOnly
<1>0. /\ Nothing.id = NoQuote /\ PhoneTypeOK
      /\ asked + 1 \in 0..MaxQuotes + 1
  BY PhoneAssumption DEF Nothing, PhoneInv, PhoneTypeOK
<1>1. CASE MarketMoves
  BY <1>1, PhoneAssumption, PhoneMoves DEF MarketMoves, PhoneInv, PhoneTypeOK
<1>2. CASE \/ \E name \in {"market", "cart", "vouchers", "payment"} : Browse(name)
           \/ EnterEvent \/ MeFails \/ BackToCart
  <2>1. /\ UNCHANGED <<price, who, qty, quotes, orders, calls, asked, paying, seen, agreed>>
        /\ entered' \in BOOLEAN
        /\ screen' \in {screen, "market", "cart", "vouchers", "payment"}
        /\ LeaveCheckout
    BY <1>0, <1>2 DEF Browse, EnterEvent, MeFails, BackToCart, PhoneTypeOK
  <2>2. PhoneTypeOK'
    BY <1>0, <2>1 DEF LeaveCheckout, PhoneTypeOK, Basket
  <2> QED
    BY <2>1, <2>2, PhoneMoves DEF LeaveCheckout
<1>3. CASE Join
  <2>1. who + 1 \in 0..MaxPeople
    BY <1>0, <1>3, PhoneAssumption DEF Join, PhoneTypeOK
  <2>2. PhoneTypeOK'
    BY <1>0, <1>3, <2>1 DEF Join, LeaveCheckout, PhoneTypeOK, Basket
  <2> QED
    BY <1>3, <2>2, PhoneMoves DEF Join, LeaveCheckout
<1>4. CASE MeAnswers
  <2>1. /\ UNCHANGED <<price, who, screen, qty, quotes, orders, visit, shown, over, sending, paying,
                       seen, agreed>>
        /\ entered' = TRUE
        /\ AskQuote \/ UNCHANGED <<calls, asked, asking>>
    BY <1>4 DEF MeAnswers
  <2>2. CASE AskQuote
    <3>1. asked' \in 0..MaxQuotes /\ asking' = "pending" /\ (PhoneTypeOK' => PhoneInv')
      BY <2>1, <2>2, PhoneAsks
    <3> QED
      BY <1>0, <2>1, <3>1 DEF PhoneTypeOK
  <2>3. CASE UNCHANGED <<calls, asked, asking>>
    BY <1>0, <2>1, <2>3, PhoneMoves DEF PhoneTypeOK
  <2> QED
    BY <2>1, <2>2, <2>3
<1>5. CASE Pay \/ SeeCurrent
  <2>1. /\ UNCHANGED <<price, who, entered, qty, quotes, orders, visit, shown, over, sending, paying,
                       seen, agreed>>
        /\ screen' \in {screen, "checkout"} /\ AskQuote
    BY <1>5 DEF Pay, SeeCurrent
  <2>2. asked' \in 0..MaxQuotes /\ asking' = "pending" /\ (PhoneTypeOK' => PhoneInv')
    BY <2>1, PhoneAsks
  <2> QED
    BY <1>0, <2>1, <2>2 DEF PhoneTypeOK
<1>6. CASE Add \/ Remove \/ ClearCart
  <2>1. /\ UNCHANGED <<price, who, screen, entered, quotes, orders, calls, asked, visit, shown, over,
                       asking, sending, paying, seen, agreed>>
        /\ qty' \in 0..MAX_PER_PRODUCT
    BY <1>0, <1>6, PhoneAssumption DEF Add, Remove, ClearCart, SetQty, PhoneTypeOK
  <2> QED
    BY <1>0, <2>1, PhoneMoves DEF PhoneTypeOK
<1>7. CASE Countdown
  BY <1>0, <1>7, PhoneMoves DEF Countdown, PhoneTypeOK
<1>8. CASE SendOrder
  <2> DEFINE c == [what |-> "order", id |-> shown.id, by |-> who, qty |-> 0, done |-> FALSE]
  <2>1. /\ UNCHANGED <<price, who, screen, entered, qty, quotes, orders, asked, visit, shown, over,
                       asking, paying, seen>>
        /\ sending' = "pending" /\ calls' = calls \cup {c}
        /\ agreed' = [agreed EXCEPT ![shown.id] = @ \cup {shown}]
    BY <1>8 DEF SendOrder
  <2>2. shown.id \in QuoteIds /\ Made(shown.id) /\ shown = Locked(shown.id)
    BY <1>8 DEF SendOrder, PhoneInv, ShownIsLocked
  <2>3. c \in PhoneCalls /\ c.what = "order" /\ c.id = shown.id
    BY <1>0, <2>2, PhoneAssumption DEF PhoneCalls, PhoneTypeOK
  <2> HIDE DEF c
  <2>4. PhoneTypeOK'
    BY <1>0, <2>1 DEF PhoneTypeOK
  <2>5. QuotesMadeOnce' /\ ShownIsLocked'
    BY <2>1, <2>3 DEF PhoneInv, QuotesMadeOnce, ShownIsLocked, Made, Locked
  <2>6. /\ agreed'[shown.id] = {shown}
        /\ \A q \in QuoteIds \ {shown.id} : agreed'[q] = agreed[q]
        /\ agreed' = [q \in QuoteIds |-> agreed'[q]]
    BY <2>1, <2>2 DEF PhoneInv, SentAsShown
  <2>7. \A d \in calls : d.id \in QuoteIds
    BY DEF PhoneInv, QuotesMadeOnce, PhoneCalls
  <2>8. SentAsShown'
    BY <2>1, <2>2, <2>3, <2>6, <2>7 DEF PhoneInv, SentAsShown, Made, Locked
  <2> QED
    BY <2>4, <2>5, <2>8 DEF PhoneInv
<1>9. CASE Handle
  <2>1. PICK call \in calls :
          /\ ~call.done
          /\ HandleQuote(call) \/ HandleOrder(call)
          /\ calls' = (calls \ {call}) \cup {[call EXCEPT !.done = TRUE]}
    BY <1>9 DEF Handle
  <2> DEFINE c == [call EXCEPT !.done = TRUE]
  <2>2. /\ call \in PhoneCalls /\ c \in PhoneCalls /\ c.what = call.what /\ c.id = call.id /\ c.done
        /\ call.id \in QuoteIds /\ call.by \in Nat /\ call.qty \in Nat
    BY DEF PhoneInv, QuotesMadeOnce, PhoneCalls
  <2>3. calls' = (calls \ {call}) \cup {c}
    BY <2>1
  <2> HIDE DEF c
  <2>4. UNCHANGED <<price, who, screen, entered, qty, asked, visit, shown, over, asking, sending,
                    paying, seen, agreed>>
    BY <1>9 DEF Handle
  <2>5. \A d \in calls : d.id \in QuoteIds
    BY DEF PhoneInv, QuotesMadeOnce, PhoneCalls
  <2>6. CASE HandleQuote(call)
    <3> DEFINE q == [owner |-> call.by, qty |-> call.qty, price |-> price, status |-> "ACTIVE"]
    <3>1. q \in Quote /\ q.status # "none"
      BY <1>0, <2>2, PhoneAssumption DEF Quote, PhoneTypeOK
    <3>2. quotes' = [quotes EXCEPT ![call.id] = q] /\ UNCHANGED orders /\ call.what = "quote"
      BY <2>6 DEF HandleQuote
    <3> HIDE DEF q
    <3>3. ~Made(call.id) /\ call.id <= asked
      BY <2>1, <3>2 DEF PhoneInv, QuotesMadeOnce
    <3>4. /\ quotes' \in [QuoteIds -> Quote] /\ Made(call.id)'
          /\ \A p \in QuoteIds \ {call.id} : Made(p)' = Made(p) /\ Locked(p)' = Locked(p)
      BY <2>2, <3>1, <3>2 DEF PhoneInv, QuotesMadeOnce, Made, Locked
    <3>5. PhoneTypeOK'
      BY <1>0, <2>4, <3>2 DEF PhoneTypeOK
    <3>6. QuotesMadeOnce'
      BY <2>1, <2>2, <2>3, <2>4, <2>5, <3>2, <3>3, <3>4 DEF PhoneInv, QuotesMadeOnce
    <3>7. ShownIsLocked'
      BY <2>4, <3>3, <3>4 DEF PhoneInv, ShownIsLocked
    <3>8. SentAsShown'
      BY <2>2, <2>3, <2>4, <2>5, <3>2, <3>3, <3>4 DEF PhoneInv, SentAsShown
    <3> QED
      BY <3>5, <3>6, <3>7, <3>8 DEF PhoneInv
  <2>7. CASE HandleOrder(call)
    <3>1. /\ quotes' = [quotes EXCEPT ![call.id].status = "CONSUMED"] /\ Made(call.id)
          /\ orders' = [orders EXCEPT ![call.id] = "PENDING"] /\ call.what = "order"
      BY <2>7 DEF HandleOrder, Made
    <3>2. /\ quotes' \in [QuoteIds -> Quote]
          /\ \A p \in QuoteIds : Made(p)' = Made(p) /\ Locked(p)' = Locked(p)
      BY <2>2, <3>1, StatusMoves DEF PhoneInv
    <3>3. /\ orders' \in [QuoteIds -> OrderStatuses]
          /\ \A q \in QuoteIds \ {call.id} : orders'[q] = orders[q]
      BY <1>0, <2>2, <3>1 DEF PhoneTypeOK, OrderStatuses
    <3>4. PhoneTypeOK'
      BY <1>0, <2>4, <3>3 DEF PhoneTypeOK
    <3>5. QuotesMadeOnce'
      BY <2>1, <2>2, <2>3, <2>4, <2>5, <3>1, <3>2 DEF PhoneInv, QuotesMadeOnce
    <3>6. ShownIsLocked'
      BY <2>4, <3>2 DEF PhoneInv, ShownIsLocked
    <3>7. agreed[call.id] # {}
      BY <3>1 DEF PhoneInv, SentAsShown
    <3>8. SentAsShown'
      BY <2>2, <2>3, <2>4, <2>5, <3>2, <3>3, <3>7 DEF PhoneInv, SentAsShown
    <3> QED
      BY <3>4, <3>5, <3>6, <3>8 DEF PhoneInv
  <2> QED
    BY <2>1, <2>6, <2>7
<1>10. CASE QuoteRunsOut
  <2>1. PICK q \in QuoteIds : /\ quotes[q].status = "ACTIVE"
                              /\ quotes' = [quotes EXCEPT ![q].status = "EXPIRED"]
    BY <1>10 DEF QuoteRunsOut
  <2>2. UNCHANGED <<price, who, screen, entered, qty, asked, visit, shown, over, asking, sending,
                    paying, seen, agreed, orders, calls>>
    BY <1>10 DEF QuoteRunsOut
  <2>3. /\ quotes' \in [QuoteIds -> Quote]
        /\ \A p \in QuoteIds : Made(p)' = Made(p) /\ Locked(p)' = Locked(p)
    BY <2>1, StatusMoves DEF PhoneInv, Made
  <2>4. \A d \in calls : d.id \in QuoteIds
    BY DEF PhoneInv, QuotesMadeOnce, PhoneCalls
  <2>5. PhoneTypeOK'
    BY <1>0, <2>2 DEF PhoneTypeOK
  <2> QED
    BY <2>2, <2>3, <2>4, <2>5 DEF PhoneInv, QuotesMadeOnce, ShownIsLocked, SentAsShown
<1>11. CASE OrderSettles
  <2>1. PICK q \in QuoteIds, status \in {"PAID", "FAILED", "EXPIRED"} :
          orders[q] = "PENDING" /\ orders' = [orders EXCEPT ![q] = status]
    BY <1>11 DEF OrderSettles
  <2>2. UNCHANGED <<price, who, screen, entered, qty, asked, visit, shown, over, asking, sending,
                    paying, seen, agreed, quotes, calls>>
    BY <1>11 DEF OrderSettles
  <2>3. /\ orders' \in [QuoteIds -> OrderStatuses]
        /\ \A p \in QuoteIds : orders'[p] # "none" => orders[p] # "none"
    BY <1>0, <2>1 DEF PhoneTypeOK, OrderStatuses
  <2>4. PhoneTypeOK'
    BY <1>0, <2>2, <2>3 DEF PhoneTypeOK
  <2> QED
    BY <2>2, <2>3, <2>4 DEF PhoneInv, QuotesMadeOnce, ShownIsLocked, SentAsShown, Made, Locked
<1>12. CASE Answer
  <2>1. PICK call \in calls : /\ calls' = calls \ {call}
                              /\ QuoteArrives(call) \/ OrderArrives(call) \/ NoGoodAnswer(call)
    BY <1>12 DEF Answer
  <2>2. UNCHANGED <<price, who, entered, quotes, orders, asked, seen, agreed>>
    BY <1>12 DEF Answer
  <2>3. call.id \in QuoteIds
    BY DEF PhoneInv, QuotesMadeOnce, PhoneCalls
  <2>4. QuotesMadeOnce' /\ SentAsShown'
    BY <2>1, <2>2 DEF PhoneInv, QuotesMadeOnce, SentAsShown, Made, Locked
  <2>5. shown' \in {shown, Nothing} \/ (shown' = Locked(call.id) /\ Made(call.id))
    BY <2>1 DEF QuoteArrives, QuoteShown, OrderArrives, LeaveCheckout, NoGoodAnswer, PhoneInv,
      QuotesMadeOnce
  <2>6. Locked(call.id).id = call.id
    BY DEF Locked
  <2>7. ShownIsLocked'
    BY <2>2, <2>3, <2>5, <2>6 DEF PhoneInv, ShownIsLocked, Made, Locked
  <2>8. PhoneTypeOK'
    <3>1. shown'.id \in {NoQuote} \cup QuoteIds
      BY <1>0, <2>3, <2>5, <2>6 DEF PhoneTypeOK
    <3>2. /\ over' \in BOOLEAN /\ screen' \in Basket \cup {"checkout", "payment", "vouchers"}
          /\ qty' \in 0..MAX_PER_PRODUCT /\ visit' \in 0..MaxQuotes + 1
          /\ paying' \in {NoQuote} \cup QuoteIds
          /\ asking' \in {"idle", "pending", "error"} /\ sending' \in {"idle", "pending", "error"}
      <4>1. CASE QuoteArrives(call)
        BY <1>0, <2>2, <4>1 DEF QuoteArrives, PhoneTypeOK, Answer
      <4>2. CASE OrderArrives(call)
        <5>1. 0 \in 0..MAX_PER_PRODUCT
          BY PhoneAssumption
        <5> QED
          BY <1>0, <2>3, <4>2, <5>1 DEF OrderArrives, LeaveCheckout
      <4>3. CASE NoGoodAnswer(call)
        BY <1>0, <2>2, <4>3 DEF NoGoodAnswer, PhoneTypeOK
      <4> QED
        BY <2>1, <4>1, <4>2, <4>3
    <3> QED
      BY <1>0, <2>2, <3>1, <3>2 DEF PhoneTypeOK
  <2> QED
    BY <2>4, <2>7, <2>8 DEF PhoneInv
<1>13. CASE FetchOrders
  <2>1. /\ UNCHANGED <<price, who, entered, qty, quotes, orders, calls, asked, visit, shown, over,
                       asking, sending, paying, agreed>>
        /\ seen' = MyOrders /\ screen' \in {screen, "vouchers"}
    BY <1>13 DEF FetchOrders
  <2>2. MyOrders \in [QuoteIds -> OrderStatuses]
    BY <1>0 DEF MyOrders, PhoneTypeOK, OrderStatuses
  <2>3. PhoneTypeOK'
    BY <1>0, <2>1, <2>2 DEF PhoneTypeOK
  <2> QED
    BY <2>1, <2>3, PhoneMoves
<1>14. CASE OpenVoucher
  BY <1>0, <1>14, PhoneMoves DEF OpenVoucher, PhoneTypeOK
<1> QED
  BY <1>1, <1>2, <1>3, <1>4, <1>5, <1>6, <1>7, <1>8, <1>9, <1>10, <1>11, <1>12, <1>13, <1>14
    DEF PhoneNext

-----------------------------------------------------------------------------
(* The devices together.                                                    *)

DeviceInv == ViewInv /\ PhoneInv /\ TillInv /\ ScannerInv /\ PanelInv

LEMMA DevicesStart == Init => DeviceInv
  BY ViewStarts, PhoneStarts, TillStarts, ScannerStarts, PanelStarts DEF Init, DeviceInv

LEMMA ViewStays == ViewInv /\ UNCHANGED viewVars => ViewInv'
  BY DEF viewVars, market, ViewInv, ViewTypeOK, MessagesTyped, SinceTheGap, NeverAcrossGap

LEMMA PhoneStays == PhoneInv /\ UNCHANGED phoneVars => PhoneInv'
  BY DEF phoneVars, PhoneInv, PhoneTypeOK, QuotesMadeOnce, ShownIsLocked, SentAsShown, Made, Locked

LEMMA TillStays == TillInv /\ UNCHANGED tillVars => TillInv'
  BY DEF tillVars, books, display, TillInv, TillTypeOK, TillCalls, StageNamed, TickHonest,
    SalesChecked, TillAgeChecked, Adult

LEMMA ScannerStays == ScannerInv /\ UNCHANGED scannerVars => ScannerInv'
  BY DEF scannerVars, vouchers, ScannerInv, ScannerTypeOK, LookupsHonest, ScreenHonest,
    RedeemChecked, ScannerAgeChecked, Checked

LEMMA PanelStays == PanelInv /\ UNCHANGED panelVars => PanelInv'
  BY DEF panelVars, PanelInv, PanelTypeOK, FormsWhole

LEMMA DevicesStep == DeviceInv /\ [Next]_vars => DeviceInv'
<1> SUFFICES ASSUME DeviceInv, [Next]_vars PROVE DeviceInv'
  OBVIOUS
<1>1. CASE UNCHANGED vars
  BY <1>1, ViewStays, PhoneStays, TillStays, ScannerStays, PanelStays DEF vars, DeviceInv
<1>2. CASE Next
  BY <1>2, ViewStays, PhoneStays, TillStays, ScannerStays, PanelStays, ViewStep, PhoneStep,
    TillStep, ScannerStep, PanelStep DEF Next, DeviceInv
<1> QED
  BY <1>1, <1>2

(* No price on screen is older than the moment the connection came back.    *)
THEOREM PricesNeverCrossAGap == Spec => []NeverAcrossGap
<1>1. DeviceInv => NeverAcrossGap
  BY DEF DeviceInv, ViewInv, SinceTheGap, NeverAcrossGap
<1> QED
  BY <1>1, DevicesStart, DevicesStep, PTL DEF Spec

(* Nobody is charged an amount no checkout showed them.                     *)
THEOREM ChargesWereShown == Spec => []ChargedWhatWasShown
<1>1. DeviceInv => ChargedWhatWasShown
  BY DEF DeviceInv, PhoneInv, SentAsShown, ChargedWhatWasShown
<1> QED
  BY <1>1, DevicesStart, DevicesStep, PTL DEF Spec

(* No alcohol leaves the bar without an age check: at the scanner one on a  *)
(* screen about that very voucher; at the till one since the till was last  *)
(* cleared or a sale was last finished there.                               *)
THEOREM AlcoholIsChecked == Spec => []AlcoholAfterAgeCheck
<1>1. DeviceInv => AlcoholAfterAgeCheck
  BY DEF DeviceInv, TillInv, SalesChecked, ScannerInv, AlcoholAfterAgeCheck
<1> QED
  BY <1>1, DevicesStart, DevicesStep, PTL DEF Spec

(* The engine never runs on half of one organiser's form and half of        *)
(* another's.                                                               *)
THEOREM FormsAreWhole == Spec => []OneFormsParams
<1>1. DeviceInv => OneFormsParams
  BY DEF DeviceInv, PanelInv, FormsWhole, OneFormsParams
<1> QED
  BY <1>1, DevicesStart, DevicesStep, PTL DEF Spec

(* Every screen keeps its types.                                            *)
THEOREM TypeCorrect ==
  Spec => [](ViewTypeOK /\ PhoneTypeOK /\ TillTypeOK /\ ScannerTypeOK /\ PanelTypeOK)
<1>1. DeviceInv => ViewTypeOK /\ PhoneTypeOK /\ TillTypeOK /\ ScannerTypeOK /\ PanelTypeOK
  BY DEF DeviceInv, ViewInv, PhoneInv, TillInv, ScannerInv, PanelInv
<1> QED
  BY <1>1, DevicesStart, DevicesStep, PTL DEF Spec

=============================================================================
