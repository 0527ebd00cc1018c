---------------------------- MODULE ScriptProofs ----------------------------
(***************************************************************************)
(* What is proved of the scripts and of the machine that runs them.        *)
(*                                                                         *)
(* Of CardPlay, for every position a round may be followed from: no        *)
(* airplane is ever the play to be beaten, and the settlement moves gold   *)
(* between the seats as it should.  What the kinds of plays are            *)
(* (PlaysFollowRules) and what the script suggests (HintIsAccepted) are    *)
(* recursive over the cards and stay with TLC.                             *)
(*                                                                         *)
(* Of ScriptVm, whose names are its own (SVInit, SVNext, SVSpec), for any  *)
(* callers, scripts and number of edits: what a bad text may spoil, whose  *)
(* call the machine is at, and the order of the updates.                   *)
(***************************************************************************)
EXTENDS CardPlay, ScriptVm, TLAPS

(* What the settlement needs to know: gold and multipliers are numbers.    *)
StakesInv == gold \in [Seat -> Int] /\ stake \in Stakes

-----------------------------------------------------------------------------
(* A check that is not asked for an airplane finds none.                   *)
LEMMA NoAirplaneFound ==
  ASSUME NEW cards, NEW t, NEW n, t \notin Airplanes
  PROVE  PokersTypeCheck(cards, t, n).type \notin Airplanes
<1>1. AirplaneCheck(cards, t) = NoPlay
  BY DEF AirplaneCheck
<1>2. LongTypeCheck(cards, t, n).type \notin Airplanes
  BY <1>1 DEF LongTypeCheck, NoPlay, Kind, Airplanes
<1> QED
  BY <1>2 DEF PokersTypeCheck, NoPlay, Kind, Airplanes

LEMMA PutAirplane ==
  ASSUME last_chu.type \notin Airplanes, NEW s, NEW cards, Put(s, cards)
  PROVE  last_chu'.type \notin Airplanes
<1>1. ToBeat.type \notin Airplanes
  BY DEF ToBeat, Nothing, Airplanes
<1>2. KindOf(cards).type \notin Airplanes
  BY <1>1, NoAirplaneFound DEF KindOf
<1> QED
  BY <1>2 DEF Put

(* No airplane is ever the play to be beaten, so that the finders for      *)
(* airplanes, which are called without their arguments (pokers.lua:535),   *)
(* are never reached.                                                      *)
THEOREM AirplanesNeverPlayed == Spec => []NoAnswerToAirplanes
<1> DEFINE Inv == last_chu.type \notin Airplanes
<1>1. Init => Inv
  BY DEF Init, Nothing, Airplanes
<1>2. Inv /\ [Next]_vars => Inv'
  <2> SUFFICES ASSUME Inv, [Next]_vars PROVE Inv'
    OBVIOUS
  <2>1. ASSUME NEW s \in Seat, Pass(s) PROVE Inv'
    BY <2>1 DEF Pass
  <2>2. ASSUME NEW s \in Seat, PutCards(s) PROVE Inv'
    <3>1. PICK cards \in Parts(hand[s]) : Play(s, cards) \/ PlayLast(s, cards)
      BY <2>2 DEF PutCards
    <3> QED
      BY <3>1, PutAirplane DEF Play, PlayLast
  <2>3. ASSUME NEW s \in Seat, BreakOff(s) PROVE Inv'
    BY <2>3 DEF BreakOff
  <2>4. CASE UNCHANGED vars
    BY <2>4 DEF vars
  <2> QED
    BY <2>1, <2>2, <2>3, <2>4 DEF Next
<1>3. Inv => NoAnswerToAirplanes
  BY DEF NoAnswerToAirplanes, AnswerExists
<1> QED
  BY <1>1, <1>2, <1>3, PTL DEF Spec

-----------------------------------------------------------------------------
(* The stakes of a round are numbers, and the landlord's is the sum.       *)
LEMMA ProductPositive ==
  ASSUME NEW x \in Nat \ {0}, NEW y \in Nat \ {0}
  PROVE  x * y \in Nat \ {0}
BY Z3

LEMMA ShareIsSame ==
  ASSUME NEW x \in Nat, NEW y \in Nat \ {0}
  PROVE  (x * y) \div y = x
BY Z3

LEMMA FarmersAre ==
  ASSUME stake \in Stakes
  PROVE  /\ Landlord \in Seat /\ FirstFarmer \in Seat /\ SecondFarmer \in Seat
         /\ Landlord # FirstFarmer /\ Landlord # SecondFarmer
         /\ FirstFarmer # SecondFarmer
         /\ Farmers = {FirstFarmer, SecondFarmer}
         /\ Seat = {Landlord, FirstFarmer, SecondFarmer}
BY DEF Stakes, Landlord, FirstFarmer, SecondFarmer, Farmers, Seat

LEMMA StakesAre ==
  ASSUME stake \in Stakes, NEW x \in Nat \ {0}
  PROVE  /\ SeatBeishu(x) \in [Seat -> Nat \ {0}]
         /\ SeatBeishu(x)[Landlord] =
              SeatBeishu(x)[FirstFarmer] + SeatBeishu(x)[SecondFarmer]
<1> DEFINE Farmer(f) == x * Double(stake.jiabei[Landlord]) * Double(stake.jiabei[f])
<1>1. \A r : Double(r) \in Nat \ {0}
  BY DEF Double
<1>2. \A f : Farmer(f) \in Nat \ {0}
  BY <1>1, ProductPositive
<1> QED
  BY <1>2, FarmersAre DEF SeatBeishu

LEMMA FactorIsPositive ==
  ASSUME NEW s, NEW h
  PROVE  RoundFactor(s, h) \in Nat \ {0}
BY DEF RoundFactor

(* What game_over adds to the gold of the seats.                           *)
LEMMA Settlement ==
  ASSUME StakesInv, NEW s \in Seat, NEW h, NEW x \in Nat \ {0}
  PROVE  LET c == GoldChange(s, h, x) IN
         /\ c \in [Seat -> Int]
         /\ c[Landlord] + c[FirstFarmer] + c[SecondFarmer] = 0
         /\ \A f \in Farmers : gold[f] >= 0 => gold[f] + c[f] >= 0
         /\ (\A t \in Seat : gold[t] >= 0) =>
              IF s = Landlord THEN c[Landlord] >= 0 /\ \A f \in Farmers : c[f] <= 0
                              ELSE c[Landlord] <= 0 /\ \A f \in Farmers : c[f] >= 0
<1> DEFINE y == x * stake.bottom * RoundFactor(s, h) * stake.mingpai
           b == SeatBeishu(y)
<1>1. y \in Nat \ {0}
  <2>1. x * stake.bottom \in Nat \ {0}
    BY ProductPositive DEF StakesInv, Stakes
  <2>2. x * stake.bottom * RoundFactor(s, h) \in Nat \ {0}
    BY <2>1, FactorIsPositive, ProductPositive
  <2> QED
    BY <2>2, ProductPositive DEF StakesInv, Stakes
<1> HIDE DEF y
<1>2. b \in [Seat -> Nat \ {0}] /\ b[Landlord] = b[FirstFarmer] + b[SecondFarmer]
  BY <1>1, StakesAre DEF StakesInv
<1>3. GoldChange(s, h, x) = IF s = Landlord THEN LandlordWins(b) ELSE FarmersWin(b)
  BY DEF GoldChange, y
<1> HIDE DEF b
<1>4. /\ Landlord \in Seat /\ FirstFarmer \in Seat /\ SecondFarmer \in Seat
      /\ Landlord # FirstFarmer /\ Landlord # SecondFarmer
      /\ FirstFarmer # SecondFarmer
      /\ Farmers = {FirstFarmer, SecondFarmer}
      /\ Seat = {Landlord, FirstFarmer, SecondFarmer}
  BY FarmersAre DEF StakesInv
<1>5. CASE s = Landlord
  BY <1>2, <1>3, <1>4, <1>5 DEF LandlordWins, StakesInv
<1>6. CASE s # Landlord
  <2>1. \A f \in Seat : (b[f] * b[Landlord]) \div b[Landlord] = b[f]
    BY <1>2, <1>4, ShareIsSame
  <2>2. FarmersWin(b) = [t \in Seat |-> IF t = Landlord THEN -b[t] ELSE b[t]]
    BY <2>1 DEF FarmersWin
  <2> QED
    BY <1>2, <1>3, <1>4, <1>6, <2>2 DEF StakesInv
<1> QED
  BY <1>5, <1>6

-----------------------------------------------------------------------------
(* A step of the round settles it, or leaves the gold alone.               *)
LEMMA BeishuIsPositive ==
  ASSUME stake \in Stakes, NEW kind
  PROVE  Beishu(kind) \in Nat \ {0}
BY DEF Beishu, Stakes

LEMMA PutStakes ==
  ASSUME stake \in Stakes, NEW s, NEW cards, Put(s, cards)
  PROVE  /\ stake' \in Stakes
         /\ stake'.beishu \in Nat \ {0}
BY BeishuIsPositive DEF Put, Stakes

LEMMA GoldStep ==
  ASSUME StakesInv, [Next]_vars
  PROVE  /\ stake' \in Stakes
         /\ \/ UNCHANGED gold
            \/ \E s \in Seat : \E h : \E x \in Nat \ {0} :
                 /\ curr_turn = s
                 /\ gold' = [t \in Seat |-> gold[t] + GoldChange(s, h, x)[t]]
<1>1. ASSUME NEW s \in Seat, Pass(s) \/ BreakOff(s)
      PROVE  UNCHANGED <<gold, stake>>
  BY <1>1 DEF Pass, BreakOff
<1>2. ASSUME NEW s \in Seat, NEW cards, Play(s, cards)
      PROVE  stake' \in Stakes /\ UNCHANGED gold
  BY <1>2, PutStakes DEF Play, StakesInv
<1>3. ASSUME NEW s \in Seat, NEW cards, PlayLast(s, cards)
      PROVE  /\ stake' \in Stakes /\ stake'.beishu \in Nat \ {0}
             /\ curr_turn = s
             /\ gold' = [t \in Seat |-> gold[t] + GoldChange(s, hand', stake'.beishu)[t]]
  <2>1. Put(s, cards)
    BY <1>3 DEF PlayLast
  <2> QED
    BY <1>3, <2>1, PutStakes DEF PlayLast, StakesInv, Put
<1>4. CASE UNCHANGED vars
  BY <1>4 DEF vars, StakesInv
<1>5. CASE Next
  <2>1. PICK s \in Seat : Pass(s) \/ PutCards(s) \/ BreakOff(s)
    BY <1>5 DEF Next
  <2>2. CASE Pass(s) \/ BreakOff(s)
    BY <2>2, <1>1 DEF StakesInv
  <2>3. CASE PutCards(s)
    <3>1. PICK cards \in Parts(hand[s]) : Play(s, cards) \/ PlayLast(s, cards)
      BY <2>3 DEF PutCards
    <3>2. CASE Play(s, cards)
      BY <3>2, <1>2
    <3>3. CASE PlayLast(s, cards)
      BY <3>3, <1>3
    <3> QED
      BY <3>1, <3>2, <3>3
  <2> QED
    BY <2>1, <2>2, <2>3
<1> QED
  BY <1>4, <1>5

(* The facts a step gives about the gold, with the settlement's.           *)
LEMMA GoldMoves ==
  ASSUME StakesInv, [Next]_vars
  PROVE  \/ UNCHANGED gold
         \/ \E c \in [Seat -> Int] :
              /\ gold' = [t \in Seat |-> gold[t] + c[t]]
              /\ c[Landlord] + c[FirstFarmer] + c[SecondFarmer] = 0
              /\ \A f \in Farmers : gold[f] >= 0 => gold[f] + c[f] >= 0
              /\ (\A t \in Seat : gold[t] >= 0) =>
                   IF curr_turn = Landlord
                   THEN c[Landlord] >= 0 /\ \A f \in Farmers : c[f] <= 0
                   ELSE c[Landlord] <= 0 /\ \A f \in Farmers : c[f] >= 0
<1>1. CASE UNCHANGED gold
  BY <1>1
<1>2. ASSUME NEW s \in Seat, NEW h, NEW x \in Nat \ {0}, curr_turn = s,
             gold' = [t \in Seat |-> gold[t] + GoldChange(s, h, x)[t]]
      PROVE  \E c \in [Seat -> Int] :
              /\ gold' = [t \in Seat |-> gold[t] + c[t]]
              /\ c[Landlord] + c[FirstFarmer] + c[SecondFarmer] = 0
              /\ \A f \in Farmers : gold[f] >= 0 => gold[f] + c[f] >= 0
              /\ (\A t \in Seat : gold[t] >= 0) =>
                   IF curr_turn = Landlord
                   THEN c[Landlord] >= 0 /\ \A f \in Farmers : c[f] <= 0
                   ELSE c[Landlord] <= 0 /\ \A f \in Farmers : c[f] >= 0
  <2> GoldChange(s, h, x) \in [Seat -> Int]
    BY Settlement
  <2> WITNESS GoldChange(s, h, x) \in [Seat -> Int]
  <2> QED
    BY <1>2, Settlement
<1> QED
  BY <1>1, <1>2, GoldStep

LEMMA StakesInvariant == Spec => []StakesInv
<1>1. Init => StakesInv
  BY DealsAssumption DEF Init, StakesInv
<1>2. StakesInv /\ [Next]_vars => StakesInv'
  <2> SUFFICES ASSUME StakesInv, [Next]_vars PROVE StakesInv'
    OBVIOUS
  <2>1. stake' \in Stakes
    BY GoldStep
  <2>2. gold' \in [Seat -> Int]
    BY GoldMoves DEF StakesInv
  <2> QED
    BY <2>1, <2>2 DEF StakesInv
<1> QED
  BY <1>1, <1>2, PTL DEF Spec

(* The settlement makes no gold and loses none, whatever the stakes and    *)
(* whatever the players hold (game_over, game.lua:1899).                   *)
THEOREM NoGoldIsMade == Spec => GoldConserved
<1>1. StakesInv /\ [Next]_vars =>
        [gold'[1] + gold'[2] + gold'[3] = gold[1] + gold[2] + gold[3]]_vars
  <2> SUFFICES ASSUME StakesInv, [Next]_vars
               PROVE  gold'[1] + gold'[2] + gold'[3] = gold[1] + gold[2] + gold[3]
    OBVIOUS
  <2>1. CASE UNCHANGED gold
    BY <2>1
  <2>2. ASSUME NEW c \in [Seat -> Int],
               gold' = [t \in Seat |-> gold[t] + c[t]],
               c[Landlord] + c[FirstFarmer] + c[SecondFarmer] = 0
        PROVE  gold'[1] + gold'[2] + gold'[3] = gold[1] + gold[2] + gold[3]
    <3>1. c[1] + c[2] + c[3] = 0
      BY <2>2 DEF StakesInv, Stakes, Landlord, FirstFarmer, SecondFarmer, Seat
    <3> QED
      BY <2>2, <3>1 DEF StakesInv, Seat
  <2> QED
    BY <2>1, <2>2, GoldMoves
<1> QED
  BY <1>1, StakesInvariant, PTL DEF Spec, GoldConserved

(* Only the landlord can be overdrawn by a settlement.                     *)
THEOREM FarmersNeverOverdrawn == Spec => FarmersCovered
<1>1. StakesInv /\ [Next]_vars =>
        [\A s \in Farmers : gold[s] >= 0 => gold'[s] >= 0]_vars
  <2> SUFFICES ASSUME StakesInv, [Next]_vars
               PROVE  \A s \in Farmers : gold[s] >= 0 => gold'[s] >= 0
    OBVIOUS
  <2>1. Farmers \subseteq Seat
    BY DEF Farmers
  <2> QED
    BY <2>1, GoldMoves
<1> QED
  BY <1>1, StakesInvariant, PTL DEF Spec, FarmersCovered

(* Where nobody owes anything, the winners do not lose and the losers do   *)
(* not win.                                                                *)
THEOREM WinnersAreNotCharged == Spec => WinnersPaid
<1> DEFINE Paid == (\A s \in Seat : gold[s] >= 0) =>
                     \A s \in Seat :
                       IF (s = Landlord) = (curr_turn = Landlord)
                       THEN gold'[s] >= gold[s] ELSE gold'[s] <= gold[s]
<1>1. StakesInv /\ [Next]_vars => [Paid]_vars
  <2> SUFFICES ASSUME StakesInv, [Next]_vars, \A s \in Seat : gold[s] >= 0,
                      NEW s \in Seat
               PROVE  IF (s = Landlord) = (curr_turn = Landlord)
                      THEN gold'[s] >= gold[s] ELSE gold'[s] <= gold[s]
    OBVIOUS
  <2>1. CASE UNCHANGED gold
    BY <2>1 DEF StakesInv
  <2>2. ASSUME NEW c \in [Seat -> Int],
               gold' = [t \in Seat |-> gold[t] + c[t]],
               IF curr_turn = Landlord
               THEN c[Landlord] >= 0 /\ \A f \in Farmers : c[f] <= 0
               ELSE c[Landlord] <= 0 /\ \A f \in Farmers : c[f] >= 0
        PROVE  IF (s = Landlord) = (curr_turn = Landlord)
               THEN gold'[s] >= gold[s] ELSE gold'[s] <= gold[s]
    <3>1. gold'[s] = gold[s] + c[s] /\ gold[s] \in Int /\ c[s] \in Int
      BY <2>2 DEF StakesInv
    <3>2. CASE s = Landlord
      BY <2>2, <3>1, <3>2
    <3>3. CASE s # Landlord
      BY <2>2, <3>1, <3>3 DEF Farmers
    <3> QED
      BY <3>2, <3>3
  <2> QED
    BY <2>1, <2>2, GoldMoves
<1> QED
  BY <1>1, StakesInvariant, PTL DEF Spec, WinnersPaid

(* A round is settled among its three players, by who won and what they    *)
(* can pay (game_over).                                                    *)
THEOREM SettlementIsFair == Spec => FairSettlement
BY NoGoldIsMade, FarmersNeverOverdrawn, WinnersAreNotCharged DEF FairSettlement

-----------------------------------------------------------------------------
(* The machine.  The inductive invariant: types that also hold of texts    *)
(* that are on their way, and the caller whose call runs.                  *)
AnyText == [file : Files \cup {NoFile}, ver : 0..MaxEdits,
            kind : {"none", "empty", "bad", "good"}]
AnyJob  == [caller : Callers \cup {NoCaller}, text : AnyText]

FileTypes ==
  /\ disk \in [Files -> Texts] /\ edits \in 0..MaxEdits
  /\ \A f \in Files : disk[f].file = f /\ disk[f].ver <= edits
  /\ events \in Seq([file : Files, op : {"create", "write"}])

WatchTypes ==
  /\ scripts \subseteq Files
  /\ watch \in [at : {"select", "hot", "offer", "stuck", "over"}, text : AnyText]
  /\ watch.at = "hot" => watch.text.file \in Files
  /\ watch.at \in {"offer", "stuck"} =>
       watch.text \in Texts /\ watch.text.kind # "none"

MachineTypes ==
  /\ vm \in {"select", "call", "update", "dead"}
  /\ job \in AnyJob
  /\ vm = "call" => job.caller \in Callers /\ caller[job.caller] = "wait"
  /\ vm = "update" => job.text \in Texts
  /\ stale \in BOOLEAN /\ unspent \in Int
  /\ loaded \in [Files -> 0..MaxEdits]
  /\ caller \in [Callers -> {"idle", "send", "wait"}]

VmSound == /\ FileTypes /\ WatchTypes /\ MachineTypes
           /\ SpoilsOneCall /\ OneAtWork /\ InOrder

LEMMA TextTypes ==
  /\ NoText \in AnyText /\ NoText.kind = "none"
  /\ Texts \subseteq AnyText
  /\ \A f \in Files : /\ [NoText EXCEPT !.file = f] \in AnyText
                      /\ [NoText EXCEPT !.file = f].file = f
  /\ \A t \in Texts : t.file \in Files /\ t.ver \in 0..MaxEdits
  /\ \A t \in AnyText : t.ver \in 0..MaxEdits
BY EditsAssumption DEF NoText, AnyText, Texts

LEMMA SoundImplies == VmSound => VmInv
<1> SUFFICES ASSUME VmSound PROVE VmInv
  OBVIOUS
<1>1. \A f \in Files : disk[f] \in Texts
  BY DEF VmSound, FileTypes
<1>2. \A f \in Files : loaded[f] <= edits
  <2> SUFFICES ASSUME NEW f \in Files PROVE loaded[f] <= edits
    OBVIOUS
  <2>1. /\ loaded[f] \in Int /\ disk[f].ver \in Int /\ edits \in Int
        /\ loaded[f] <= disk[f].ver /\ disk[f].ver <= edits
    BY <1>1, TextTypes DEF VmSound, FileTypes, MachineTypes, InOrder
  <2> QED
    BY <2>1
<1>3. SVTypeOK
  BY <1>1, <1>2 DEF VmSound, FileTypes, WatchTypes, MachineTypes, SVTypeOK
<1> QED
  BY <1>3 DEF VmSound, VmInv

LEMMA SoundInitially == SVInit => VmSound
<1> SUFFICES ASSUME SVInit PROVE VmSound
  OBVIOUS
<1>1. FileTypes
  BY EditsAssumption DEF SVInit, FileTypes, Texts
<1>2. WatchTypes
  BY FilesAssumption, TextTypes DEF SVInit, WatchTypes, Watching
<1>3. MachineTypes
  <2>1. job \in AnyJob
    BY TextTypes DEF SVInit, NoJob, AnyJob
  <2>2. loaded \in [Files -> 0..MaxEdits]
    BY EditsAssumption DEF SVInit
  <2>3. caller \in [Callers -> {"idle", "send", "wait"}]
    BY DEF SVInit
  <2>4. vm = "select" /\ stale \in BOOLEAN
    BY DEF SVInit
  <2>5. unspent \in Int
    BY DEF SVInit
  <2> QED
    BY <2>1, <2>2, <2>3, <2>4, <2>5 DEF MachineTypes
<1>4. SpoilsOneCall /\ OneAtWork
  BY DEF SVInit, SpoilsOneCall, OneAtWork
<1>5. InOrder
  BY DEF SVInit, InOrder, Loading, Offering, Watching
<1> QED
  BY <1>1, <1>2, <1>3, <1>4, <1>5 DEF VmSound

(* An edit changes the files and what the watcher will hear.               *)
LEMMA EditKeeps ==
  ASSUME VmSound, Edit
  PROVE  FileTypes' /\ InOrder' /\ UNCHANGED <<watchVars, vmVars, caller>>
<1> DEFINE Newer == /\ disk' \in [Files -> Texts] /\ edits' \in 0..MaxEdits
                    /\ \A f \in Files : /\ disk'[f].file = f /\ disk'[f].ver <= edits'
                                        /\ disk[f].ver <= disk'[f].ver
           Heard == events' \in Seq([file : Files, op : {"create", "write"}])
<1>1. \A f \in Files, op \in {"create", "write"} : Hear(f, op) => Heard
  <2> SUFFICES ASSUME NEW f \in Files, NEW op \in {"create", "write"}, Hear(f, op)
               PROVE  Heard
    OBVIOUS
  <2> DEFINE Event == [file : Files, op : {"create", "write"}]
  <2>1. [file |-> f, op |-> op] \in Event
    OBVIOUS
  <2>2. events \in Seq(Event)
    BY DEF VmSound, FileTypes
  <2>3. \/ events' = Append(events, [file |-> f, op |-> op])
        \/ events' = events
    BY DEF Hear
  <2> HIDE DEF Event
  <2>4. events' \in Seq(Event)
    BY <2>1, <2>2, <2>3
  <2> QED
    BY <2>4 DEF Event
<1>2. ASSUME NEW f \in Files, NEW kind \in {"none", "empty", "bad", "good"},
             Change(f, kind)
      PROVE  Newer
  <2>1. edits \in 0..MaxEdits /\ edits + 1 \in 0..MaxEdits /\ edits' = edits + 1
    BY <1>2, EditsAssumption DEF VmSound, FileTypes, Change
  <2>2. disk'[f] = [disk[f] EXCEPT !.ver = edits + 1, !.kind = kind]
    BY <1>2 DEF VmSound, FileTypes, Change
  <2>3. \A g \in Files \ {f} : disk'[g] = disk[g]
    BY <1>2 DEF VmSound, FileTypes, Change
  <2>4. disk[f] \in Texts /\ disk[f].file = f /\ disk[f].ver <= edits
    BY DEF VmSound, FileTypes
  <2>5. /\ disk'[f] \in Texts /\ disk'[f].file = f
        /\ disk'[f].ver = edits + 1 /\ disk[f].ver <= disk'[f].ver
    <3>1. PICK t \in Texts : t = disk[f]
      BY <2>4
    <3>2. PICK v \in 0..MaxEdits : v = edits + 1
      BY <2>1
    <3>3. disk'[f] = [t EXCEPT !.ver = v, !.kind = kind]
      BY <2>2, <3>1, <3>2
    <3>4. /\ disk'[f] \in Texts /\ disk'[f].file = t.file
          /\ disk'[f].ver = v /\ t.ver \in 0..MaxEdits
      BY <3>3 DEF Texts
    <3> QED
      BY <2>1, <2>4, <3>1, <3>2, <3>4
  <2>6. ASSUME NEW g \in Files \ {f}
        PROVE  /\ disk'[g] \in Texts /\ disk'[g].file = g /\ disk'[g].ver <= edits'
               /\ disk[g].ver <= disk'[g].ver
    BY <2>1, <2>3 DEF VmSound, FileTypes, Texts
  <2>7. DOMAIN disk' = Files /\ disk' = [g \in Files |-> disk'[g]]
    BY <1>2 DEF VmSound, FileTypes, Change
  <2> QED
    BY <2>1, <2>5, <2>6, <2>7
<1>3. ASSUME NEW f \in Files, NEW kind \in {"bad", "good"}, Write(f, kind) PROVE Newer
  <2>1. disk' = [disk EXCEPT ![f].kind = kind] /\ edits' = edits
    BY <1>3 DEF Write
  <2> QED
    BY <2>1 DEF VmSound, FileTypes, Texts
<1>4. Newer /\ Heard /\ UNCHANGED <<watchVars, vmVars, caller>>
  <2>1. PICK f \in Files : \/ Truncate(f) \/ Delete(f)
                           \/ \E kind \in {"bad", "good"} : Write(f, kind) \/ Replace(f, kind)
    BY DEF Edit
  <2>2. CASE Truncate(f)
    <3>1. Heard
      BY <2>2, <1>1 DEF Truncate
    <3> QED
      BY <2>2, <1>2, <3>1 DEF Truncate
  <2>3. CASE Delete(f)
    BY <2>3, <1>2 DEF Delete, VmSound, FileTypes
  <2>4. ASSUME NEW kind \in {"bad", "good"}, Write(f, kind)
        PROVE  Newer /\ Heard /\ UNCHANGED <<watchVars, vmVars, caller>>
    BY <2>4, <1>1, <1>3 DEF Write
  <2>5. ASSUME NEW kind \in {"bad", "good"}, Replace(f, kind)
        PROVE  Newer /\ Heard /\ UNCHANGED <<watchVars, vmVars, caller>>
    BY <2>5, <1>1, <1>2 DEF Replace
  <2> QED
    BY <2>1, <2>2, <2>3, <2>4, <2>5
<1>5. FileTypes'
  BY <1>4 DEF FileTypes
<1>6. InOrder'
  <2> SUFFICES ASSUME NEW f \in Files
               PROVE  /\ loaded'[f] <= disk'[f].ver
                      /\ Loading(f)' => /\ loaded'[f] <= job'.text.ver
                                        /\ job'.text.ver <= disk'[f].ver
                      /\ Offering(f)' => /\ loaded'[f] <= watch'.text.ver
                                         /\ watch'.text.ver <= disk'[f].ver
                      /\ Loading(f)' /\ Offering(f)' => job'.text.ver <= watch'.text.ver
    BY DEF InOrder
  <2>1. /\ loaded' = loaded /\ job' = job /\ watch' = watch
        /\ Loading(f)' = Loading(f) /\ Offering(f)' = Offering(f)
    BY <1>4 DEF watchVars, vmVars, Loading, Offering
  <2>2. /\ loaded[f] \in Int /\ job.text.ver \in Int /\ watch.text.ver \in Int
        /\ disk[f].ver \in Int /\ disk'[f].ver \in Int /\ disk[f].ver <= disk'[f].ver
    BY <1>4, TextTypes DEF VmSound, FileTypes, WatchTypes, MachineTypes, AnyJob
  <2> QED
    BY <2>1, <2>2 DEF VmSound, InOrder
<1> QED
  BY <1>4, <1>5, <1>6

(* The versions on a text's way are numbers, in every state and after.     *)
Versions == \A f \in Files : /\ loaded[f] \in Int /\ job.text.ver \in Int
                             /\ watch.text.ver \in Int /\ disk[f].ver \in Int

LEMMA VersionTypes == VmSound => Versions
BY TextTypes DEF VmSound, FileTypes, WatchTypes, MachineTypes, AnyJob, Versions

(* A step of the watcher reads a file or lets go of what it has.           *)
LEMMA WatchKeeps ==
  ASSUME VmSound, Watch
  PROVE  FileTypes' /\ WatchTypes' /\ InOrder' /\ UNCHANGED <<vmVars, caller>>
<1>1. UNCHANGED <<fileVars, vmVars, caller>>
  BY DEF Watch, HearEvent, ReadFile, Tick, HearDone, WatchEnds
<1>2. UNCHANGED <<disk, edits, vm, job, loaded>>
  BY <1>1 DEF fileVars, vmVars
<1>3. Watching \in [at : {"select"}, text : AnyText]
  BY TextTypes DEF Watching
<1>4. Versions
  BY VersionTypes
<1>5. CASE HearEvent
  <2>1. Head(events) \in [file : Files, op : {"create", "write"}]
        /\ Tail(events) \in Seq([file : Files, op : {"create", "write"}])
    <3> DEFINE Event == [file : Files, op : {"create", "write"}]
    <3>1. events \in Seq(Event) /\ events # <<>>
      BY <1>5 DEF HearEvent, VmSound, FileTypes
    <3> HIDE DEF Event
    <3>2. Head(events) \in Event /\ Tail(events) \in Seq(Event)
      BY <3>1
    <3> QED
      BY <3>2 DEF Event
  <2>2. FileTypes'
    BY <1>2, <1>5, <2>1 DEF HearEvent, VmSound, FileTypes
  <2>3. \/ watch' = Watching
        \/ watch' = [at |-> "hot", text |-> [NoText EXCEPT !.file = Head(events).file]]
    BY <1>5 DEF HearEvent
  <2>4. WatchTypes' /\ watch'.at \in {"select", "hot"}
    <3>1. scripts' = scripts
      BY <1>5 DEF HearEvent
    <3>2. CASE watch' = Watching
      BY <1>3, <3>1, <3>2 DEF VmSound, WatchTypes
    <3>3. ASSUME NEW f \in Files,
                 watch' = [at |-> "hot", text |-> [NoText EXCEPT !.file = f]]
          PROVE  WatchTypes' /\ watch'.at = "hot"
      <4>1. PICK t \in AnyText : t = [NoText EXCEPT !.file = f] /\ t.file = f
        BY TextTypes
      <4> QED
        BY <3>1, <3>3, <4>1 DEF VmSound, WatchTypes
    <3> QED
      BY <2>1, <2>3, <3>2, <3>3
  <2>5. InOrder'
    BY <1>2, <2>4 DEF VmSound, InOrder, Offering, Loading
  <2> QED
    BY <1>1, <2>2, <2>4, <2>5
<1>6. CASE ReadFile
  <2>1. FileTypes'
    BY <1>2, <1>6 DEF ReadFile, VmSound, FileTypes
  <2>2. watch.text.file \in Files
    BY <1>6 DEF ReadFile, VmSound, WatchTypes
  <2>3. PICK f \in Files : f = watch.text.file
    BY <2>2
  <2>4. disk[f] \in Texts /\ disk[f].file = f
    BY DEF VmSound, FileTypes
  <2>5. CASE disk[f].kind = "none"
    <3>1. watch' = Watching /\ scripts' = scripts
      BY <1>6, <2>3, <2>5 DEF ReadFile
    <3>2. WatchTypes' /\ watch'.at = "select"
      BY <1>3, <3>1 DEF VmSound, WatchTypes
    <3>3. InOrder'
      BY <1>2, <3>2 DEF VmSound, InOrder, Offering, Loading
    <3> QED
      BY <1>1, <2>1, <3>2, <3>3
  <2>6. CASE disk[f].kind # "none"
    <3>1. watch' = [at |-> "offer", text |-> disk[f]] /\ scripts' = scripts \cup {f}
      BY <1>6, <2>3, <2>4, <2>6 DEF ReadFile
    <3>2. WatchTypes'
      BY <2>4, <2>6, <3>1, TextTypes DEF VmSound, WatchTypes
    <3>3. InOrder'
      BY <1>2, <1>4, <2>4, <3>1 DEF VmSound, InOrder, Offering, Loading, Versions
    <3> QED
      BY <1>1, <2>1, <3>2, <3>3
  <2> QED
    BY <2>5, <2>6
<1>7. CASE Tick
  <2>1. FileTypes'
    BY <1>2, <1>7 DEF Tick, VmSound, FileTypes
  <2>2. /\ watch.at = "offer" /\ scripts' = scripts
        /\ watch'.at = "stuck" /\ watch'.text = watch.text
        /\ watch' = [at |-> "stuck", text |-> watch.text]
    BY <1>7 DEF Tick, VmSound, WatchTypes
  <2>3. WatchTypes'
    BY <2>2 DEF VmSound, WatchTypes
  <2>4. InOrder'
    BY <1>2, <2>2 DEF VmSound, InOrder, Offering, Loading
  <2> QED
    BY <1>1, <2>1, <2>3, <2>4
<1>8. CASE HearDone \/ WatchEnds
  <2>1. FileTypes'
    BY <1>2, <1>8 DEF HearDone, WatchEnds, VmSound, FileTypes
  <2>2. /\ scripts' = scripts
        /\ watch' = Watching \/ watch' = [Watching EXCEPT !.at = "over"]
    BY <1>8 DEF HearDone, WatchEnds
  <2>3. WatchTypes' /\ watch'.at \in {"select", "over"}
    BY <1>3, <2>2, TextTypes DEF VmSound, WatchTypes, Watching
  <2>4. InOrder'
    BY <1>2, <2>3 DEF VmSound, InOrder, Offering, Loading
  <2> QED
    BY <1>1, <2>1, <2>3, <2>4
<1> QED
  BY <1>5, <1>6, <1>7, <1>8 DEF Watch

(* The machine takes a call or an update.                                  *)
LEMMA CallKeeps ==
  ASSUME VmSound, NEW c \in Callers, Call(c) \/ TakeCall(c)
  PROVE  VmSound'
<1>1. UNCHANGED <<fileVars, events, watchVars, stale, loaded, unspent>>
  BY DEF Call, TakeCall, vmVars
<1>2. FileTypes' /\ WatchTypes' /\ SpoilsOneCall'
  BY <1>1 DEF fileVars, watchVars, VmSound, FileTypes, WatchTypes, SpoilsOneCall
<1>3. /\ \/ caller[c] = "idle" /\ caller' = [caller EXCEPT ![c] = "send"]
            /\ UNCHANGED <<vm, job>>
         \/ /\ vm = "select" /\ caller[c] = "send"
            /\ vm' = "call" /\ job' = [NoJob EXCEPT !.caller = c]
            /\ caller' = [caller EXCEPT ![c] = "wait"]
  BY DEF Call, TakeCall, vmVars
<1>4. caller \in [Callers -> {"idle", "send", "wait"}]
  BY DEF VmSound, MachineTypes
<1>5. CASE caller[c] = "idle" /\ caller' = [caller EXCEPT ![c] = "send"]
           /\ UNCHANGED <<vm, job>>
  <2>1. \A d \in Callers : caller'[d] = "wait" <=> caller[d] = "wait"
    BY <1>4, <1>5
  <2>2. caller' \in [Callers -> {"idle", "send", "wait"}]
    BY <1>4, <1>5
  <2>3. MachineTypes'
    BY <1>1, <1>5, <2>1, <2>2 DEF VmSound, MachineTypes
  <2>4. OneAtWork'
    BY <1>5, <2>1 DEF VmSound, OneAtWork
  <2>5. InOrder'
    BY <1>1, <1>5 DEF fileVars, watchVars, VmSound, InOrder, Offering, Loading
  <2> QED
    BY <1>2, <2>3, <2>4, <2>5 DEF VmSound
<1>6. CASE /\ vm = "select" /\ caller[c] = "send"
           /\ vm' = "call" /\ job' = [NoJob EXCEPT !.caller = c]
           /\ caller' = [caller EXCEPT ![c] = "wait"]
  <2>1. \A d \in Callers : caller[d] # "wait"
    BY <1>6 DEF VmSound, OneAtWork
  <2>2. \A d \in Callers : caller'[d] = "wait" <=> d = c
    BY <1>4, <1>6, <2>1
  <2>3. job' = [caller |-> c, text |-> NoText]
    BY <1>6 DEF NoJob
  <2>4. caller' \in [Callers -> {"idle", "send", "wait"}]
    BY <1>4, <1>6
  <2>5. MachineTypes'
    <3>1. job' \in AnyJob
      BY <2>3, TextTypes DEF AnyJob
    <3>2. job'.caller = c /\ vm' = "call"
      BY <1>6, <2>3
    <3> QED
      BY <1>1, <2>2, <2>4, <3>1, <3>2 DEF VmSound, MachineTypes
  <2>6. OneAtWork'
    BY <1>6, <2>2, <2>3 DEF OneAtWork
  <2>7. InOrder'
    BY <1>1, <1>6 DEF fileVars, watchVars, VmSound, InOrder, Offering, Loading
  <2> QED
    BY <1>2, <2>5, <2>6, <2>7 DEF VmSound
<1> QED
  BY <1>3, <1>5, <1>6

LEMMA UpdateKeeps == ASSUME VmSound, TakeUpdate PROVE VmSound'
<1>1. /\ UNCHANGED <<fileVars, events, scripts, stale, loaded, caller, unspent>>
      /\ vm = "select" /\ watch.at = "offer" /\ vm' = "update"
      /\ job' = [caller |-> NoCaller, text |-> watch.text] /\ watch' = Watching
  BY DEF TakeUpdate, NoJob
<1>2. watch.text \in Texts
  BY <1>1 DEF VmSound, WatchTypes
<1>3. FileTypes' /\ SpoilsOneCall'
  BY <1>1 DEF fileVars, VmSound, FileTypes, SpoilsOneCall
<1>4. WatchTypes'
  BY <1>1, TextTypes DEF Watching, VmSound, WatchTypes
<1>5. MachineTypes'
  <2>1. job' \in AnyJob
    BY <1>1, <1>2, TextTypes DEF AnyJob
  <2> QED
    BY <1>1, <1>2, <2>1 DEF VmSound, MachineTypes
<1>6. OneAtWork'
  BY <1>1 DEF VmSound, OneAtWork
<1>7. InOrder'
  <2>1. watch'.at = "select" /\ job'.text = watch.text
    BY <1>1 DEF Watching
  <2> QED
    BY <1>1, <2>1 DEF fileVars, VmSound, InOrder, Offering, Loading
<1> QED
  BY <1>3, <1>4, <1>5, <1>6, <1>7 DEF VmSound

(* It comes to the end of what it is at.                                   *)
LEMMA RunKeeps == ASSUME VmSound, Run PROVE VmSound'
<1>1. UNCHANGED <<fileVars, events, watchVars>> /\ job' = NoJob
  BY DEF Run, EndCall, EndUpdate, Panic
<1>2. FileTypes' /\ WatchTypes'
  BY <1>1 DEF fileVars, watchVars, VmSound, FileTypes, WatchTypes
<1>3. UNCHANGED <<disk, watch>>
  BY <1>1 DEF fileVars, watchVars
<1>4. job' \in AnyJob
  BY <1>1, TextTypes DEF NoJob, AnyJob
<1>5. CASE EndCall
  <2>1. /\ vm = "call" /\ vm' = "select" /\ loaded' = loaded /\ stale' = FALSE
        /\ caller' = [caller EXCEPT ![job.caller] = "idle"]
        /\ unspent' \in {unspent, IF stale THEN unspent - 1 ELSE unspent}
    BY <1>5 DEF EndCall, Reply, StackAfter
  <2>2. /\ unspent \in Int /\ unspent >= 0
        /\ stale => unspent >= 1
    BY DEF VmSound, MachineTypes, SpoilsOneCall
  <2>3. SpoilsOneCall' /\ unspent' \in Int
    <3>1. unspent' \in Int /\ unspent' >= 0
      BY <2>1, <2>2
    <3> QED
      BY <2>1, <3>1 DEF SpoilsOneCall
  <2>4. MachineTypes'
    BY <1>4, <2>1, <2>3 DEF VmSound, MachineTypes
  <2>5. OneAtWork'
    BY <2>1 DEF VmSound, MachineTypes, OneAtWork
  <2>6. InOrder'
    BY <1>3, <2>1 DEF VmSound, InOrder, Offering, Loading
  <2> QED
    BY <1>2, <2>3, <2>4, <2>5, <2>6 DEF VmSound
<1>6. CASE EndUpdate
  <2>1. /\ vm = "update" /\ vm' = "select" /\ caller' = caller
        /\ \/ loaded' = [loaded EXCEPT ![job.text.file] = job.text.ver]
           \/ loaded' = loaded
        /\ stale' = (stale \/ job.text.kind = "bad")
        /\ unspent' = IF job.text.kind = "bad" THEN unspent + 1 ELSE unspent
    BY <1>6 DEF EndUpdate
  <2>2. job.text.file \in Files /\ job.text.ver \in 0..MaxEdits
    BY <2>1, TextTypes DEF VmSound, MachineTypes
  <2>3. loaded' \in [Files -> 0..MaxEdits]
    BY <2>1, <2>2 DEF VmSound, MachineTypes
  <2>4. SpoilsOneCall' /\ unspent' \in Int /\ stale' \in BOOLEAN
    BY <2>1 DEF VmSound, MachineTypes, SpoilsOneCall
  <2>5. MachineTypes'
    BY <1>4, <2>1, <2>3, <2>4 DEF VmSound, MachineTypes
  <2>6. OneAtWork'
    BY <2>1 DEF VmSound, OneAtWork
  <2>7. \A f \in Files : loaded'[f] = loaded[f]
                         \/ (Loading(f) /\ loaded'[f] = job.text.ver)
    BY <2>1, <2>2 DEF VmSound, MachineTypes, Loading
  <2>8. InOrder'
    BY <1>3, <2>1, <2>7 DEF VmSound, InOrder, Offering, Loading
  <2> QED
    BY <1>2, <2>4, <2>5, <2>6, <2>8 DEF VmSound
<1>7. CASE Panic
  <2>1. vm' = "dead" /\ UNCHANGED <<stale, loaded, unspent, caller>>
    BY <1>7 DEF Panic
  <2>2. MachineTypes' /\ SpoilsOneCall' /\ OneAtWork'
    BY <1>4, <2>1 DEF VmSound, MachineTypes, SpoilsOneCall, OneAtWork
  <2>3. InOrder'
    BY <1>3, <2>1 DEF VmSound, InOrder, Offering, Loading
  <2> QED
    BY <1>2, <2>2, <2>3 DEF VmSound
<1> QED
  BY <1>5, <1>6, <1>7 DEF Run

LEMMA SoundKept == VmSound /\ [SVNext]_svVars => VmSound'
<1> SUFFICES ASSUME VmSound, [SVNext]_svVars PROVE VmSound'
  OBVIOUS
<1>1. CASE Edit
  <2>1. FileTypes' /\ InOrder' /\ UNCHANGED <<watchVars, vmVars, caller>>
    BY <1>1, EditKeeps
  <2> QED
    BY <2>1 DEF VmSound, WatchTypes, MachineTypes, SpoilsOneCall, OneAtWork,
      watchVars, vmVars
<1>2. CASE Watch
  <2>1. FileTypes' /\ WatchTypes' /\ InOrder' /\ UNCHANGED <<vmVars, caller>>
    BY <1>2, WatchKeeps
  <2> QED
    BY <2>1 DEF VmSound, MachineTypes, SpoilsOneCall, OneAtWork, vmVars
<1>3. CASE Run
  BY <1>3, RunKeeps
<1>4. CASE TakeUpdate
  BY <1>4, UpdateKeeps
<1>5. ASSUME NEW c \in Callers, Call(c) \/ TakeCall(c) PROVE VmSound'
  BY <1>5, CallKeeps
<1>6. CASE UNCHANGED svVars
  BY <1>6 DEF svVars, fileVars, watchVars, vmVars, VmSound, FileTypes, WatchTypes,
    MachineTypes, SpoilsOneCall, OneAtWork, InOrder, Offering, Loading
<1> QED
  BY <1>1, <1>2, <1>3, <1>4, <1>5, <1>6 DEF SVNext

LEMMA AlwaysSound == SVSpec => []VmSound
BY SoundInitially, SoundKept, PTL DEF SVSpec

(* For any callers, scripts and edits: a text that does not compile spoils *)
(* one call at most, the caller that waits is the one whose call runs, and *)
(* updates are in the machine, at the watcher and on disk in the order of  *)
(* the saves (vm.go:85, loader.go:131).                                    *)
THEOREM MachineIsSound == SVSpec => []VmInv
BY AlwaysSound, SoundImplies, PTL

(* An update never puts an older text in the place of a newer one.         *)
THEOREM UpdatesAdvance == SVSpec => NoOlderScript
<1>1. VmSound /\ [SVNext]_svVars => [\A f \in Files : loaded'[f] >= loaded[f]]_svVars
  <2> SUFFICES ASSUME VmSound, [SVNext]_svVars, NEW f \in Files
               PROVE  loaded'[f] >= loaded[f]
    OBVIOUS
  <2>1. CASE EndUpdate
    <3>1. loaded'[f] = loaded[f] \/ (Loading(f) /\ loaded'[f] = job.text.ver)
      BY <2>1 DEF EndUpdate, Loading, VmSound, MachineTypes
    <3>2. Loading(f) => loaded[f] <= job.text.ver
      BY DEF VmSound, InOrder
    <3> QED
      BY <3>1, <3>2, VersionTypes DEF Versions
  <2>2. CASE loaded' = loaded
    BY <2>2, VersionTypes DEF Versions
  <2>3. EndUpdate \/ loaded' = loaded
    <3>1. Edit => loaded' = loaded
      BY EditKeeps DEF vmVars
    <3>2. Watch => loaded' = loaded
      BY WatchKeeps DEF vmVars
    <3>3. Run => EndUpdate \/ loaded' = loaded
      BY DEF Run, EndCall, Panic
    <3>4. TakeUpdate \/ (\E c \in Callers : Call(c) \/ TakeCall(c)) => loaded' = loaded
      BY DEF TakeUpdate, Call, TakeCall, vmVars
    <3>5. UNCHANGED svVars => loaded' = loaded
      BY DEF svVars, vmVars
    <3> QED
      BY <3>1, <3>2, <3>3, <3>4, <3>5 DEF SVNext
  <2> QED
    BY <2>1, <2>2, <2>3
<1> QED
  BY <1>1, AlwaysSound, PTL DEF SVSpec, NoOlderScript
=============================================================================
