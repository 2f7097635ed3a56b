------------------------- MODULE ClientDaemonProofs -------------------------
(***************************************************************************)
(* Proofs about ClientDaemon: ClientInv is inductive, and with it the      *)
(* journal, the withdrawal plans and the keys are safe for any number of   *)
(* concurrent calls, notes, requests, faults and restarts.                 *)
(*                                                                         *)
(* A step is split into what it does to the wallet, the server and the     *)
(* vault (StoreOK), to the plans (PlansOK), to the key in memory (KeyOK)   *)
(* and to the calls (CallsOK).  Grows says what no step takes back, which  *)
(* is all that the calls of other tasks depend on.                         *)
(***************************************************************************)
EXTENDS ClientDaemon, TLAPS

-----------------------------------------------------------------------------
(* The parts of ClientInv *)

Requests == [coin : Coin, kind : {"lease", "proxy"}]
Wallets == [coin : Coin \cup {NoCoin}, pending : Ids \cup {0}]

\* What the wallet files w must be for the requests, the rows and the vault.
WalletOK(w) ==
  /\ w \in Wallets
  /\ w.coin # NoCoin =>
       /\ vault[w.coin.note].status # "none"
       /\ nullifiers[w.coin].status \in {"reserved", "finalized"} => w.pending = nullifiers[w.coin].id
  /\ w.pending # 0 =>
       w.pending \in DOMAIN requests /\ w.coin # NoCoin /\ requests[w.pending].coin = w.coin
  /\ \A i \in DOMAIN requests :
       requests[i].coin.note = w.coin.note => requests[i].coin.state <= w.coin.state

ServerTypes ==
  /\ mode \in {"proxy", "direct_openrouter"}
  /\ requests \in Seq(Requests) /\ Len(requests) <= MaxRequests
  /\ nullifiers \in [Coin -> [status : {"unknown", "reserved", "finalized", "clearance_reserved"},
                              id : Ids \cup {0}]]
  /\ leases \in [Ids -> {"none", "active", "finalized"}]
  /\ expired \in SUBSET Ids
  /\ vault \in [Notes -> [status : {"none", "active", "pending_withdrawal", "closed"},
                          coin : Coin \cup {NoCoin}]]

RequestsOK ==
  \A i \in DOMAIN requests :
    requests[i].coin.state < MaxState /\ vault[requests[i].coin.note].status # "none"

StoreOK == ServerTypes /\ WalletOK(wallet) /\ RequestsOK /\ RowsAnswerRequests

PlansOK ==
  /\ plan \in Plan \cup {NoPlan} /\ planFile \in Plan \cup {NoPlan} /\ handed \in SUBSET Plan
  /\ Binding(plan) /\ Binding(planFile)

KeyOK == lease \in ActiveOpenRouterLease \cup {NoLease} /\ KeyIsLeased

CallsOK ==
  /\ task \in [Tasks -> Task]
  /\ LocksExclude
  /\ \A t \in Tasks : CallIsFormed(task[t]) /\ CallIsCovered(task[t])
  /\ KeyServesOneSession

FaultsOK == faults \in [errors : 0..MaxFaults, crashes : 0..MaxCrashes]

\* NoCoin is no state of a note.
LEMMA Coins ==
  /\ \A c \in Coin : c.note \in Notes /\ c.note # 0 /\ c.state \in 0..MaxState /\ c.state \in Nat
  /\ NoCoin \notin Coin /\ NoCoin.note = 0 /\ 0 \notin Notes /\ 0 \notin Ids
  /\ \A c, d \in Coin : c.note = d.note /\ c.state = d.state => c = d
<1>1. MaxNotes \in Nat /\ MaxState \in Nat /\ MaxRequests \in Nat
  BY ClientAssumption
<1> QED BY <1>1 DEF Coin, NoCoin, Notes, Ids

\* The requests are numbered from 1.
LEMMA RequestTypes ==
  ASSUME ServerTypes
  PROVE  /\ Len(requests) \in Nat /\ DOMAIN requests = 1..Len(requests)
         /\ \A i \in DOMAIN requests :
              i \in Ids /\ i # 0 /\ requests[i] \in Requests /\ requests[i].coin \in Coin
              /\ requests[i].kind \in {"lease", "proxy"}
<1>1. Len(requests) \in Nat /\ DOMAIN requests = 1..Len(requests) /\ Len(requests) <= MaxRequests
  BY DEF ServerTypes
<1>2. \A i \in DOMAIN requests : requests[i] \in Requests
  BY DEF ServerTypes
<1>3. \A i \in DOMAIN requests : i \in Ids /\ i # 0
  BY <1>1, ClientAssumption DEF Ids
<1> QED BY <1>1, <1>2, <1>3 DEF Requests

\* ClientInv is the conjunction of its parts.
LEMMA Parts == ClientInv <=> StoreOK /\ PlansOK /\ KeyOK /\ CallsOK /\ FaultsOK
<1>1. ASSUME ClientInv PROVE StoreOK /\ PlansOK /\ KeyOK /\ CallsOK /\ FaultsOK
  <2>1. ServerTypes /\ wallet \in Wallets
    BY <1>1 DEF ClientInv, ClientTypeOK, ServerTypes, Requests, Wallets
  <2>2. wallet.coin # NoCoin => wallet.coin \in Coin
    BY <2>1 DEF Wallets
  <2>3. WalletOK(wallet) /\ RequestsOK
    BY <1>1, <2>1, <2>2 DEF ClientInv, WalletOK, RequestsOK, JournalIsCurrent, ReservationIsJournalled
  <2> QED BY <1>1, <2>1, <2>3
      DEF ClientInv, ClientTypeOK, StoreOK, PlansOK, KeyOK, CallsOK, FaultsOK
<1>2. ASSUME StoreOK, PlansOK, KeyOK, CallsOK, FaultsOK PROVE ClientInv
  <2>1. ClientTypeOK
    BY <1>2 DEF ClientTypeOK, StoreOK, ServerTypes, WalletOK, Requests, Wallets, PlansOK, KeyOK,
                CallsOK, FaultsOK
  <2>2. ReservationIsJournalled /\ JournalIsCurrent
    BY <1>2, Coins DEF StoreOK, WalletOK, RequestsOK, JournalIsCurrent, ReservationIsJournalled
  <2> QED BY <1>2, <2>1, <2>2 DEF ClientInv, StoreOK, PlansOK, KeyOK, CallsOK
<1> QED BY <1>1, <1>2

-----------------------------------------------------------------------------
(* What no step takes back *)

\* A request is never changed; a lease, an expiry, a clearance, a deposit and a close
\* on chain stay; a row does not become free again.
Grows ==
  /\ DOMAIN requests \subseteq DOMAIN requests'
  /\ \A i \in DOMAIN requests : requests'[i] = requests[i]
  /\ \A i \in Ids : leases[i] # "none" => leases'[i] # "none"
  /\ expired \subseteq expired'
  /\ \A n \in Notes :
       /\ vault[n].status # "none" => vault'[n].status # "none"
       /\ vault[n].status = "closed" => vault'[n].status = "closed"
  /\ \A c \in Coin :
       /\ nullifiers[c].status = "clearance_reserved" => nullifiers'[c].status = "clearance_reserved"
       /\ nullifiers'[c].status \in {"unknown", "clearance_reserved"}
            => nullifiers[c].status \in {"unknown", "clearance_reserved"}

\* While calls are in progress the wallet leaves a state only for a later one of the
\* note, and then it was not cleared, or for none when the note is closed.
Moves ==
  \/ wallet'.coin = wallet.coin
  \/ wallet'.coin = NoCoin /\ (wallet.coin = NoCoin \/ vault[wallet.coin.note].status = "closed")
  \/ /\ wallet.coin \in Coin /\ wallet'.coin \in Coin /\ wallet'.coin.note = wallet.coin.note
     /\ nullifiers[wallet.coin].status # "clearance_reserved"

\* A request that the server has not accepted stays in the journal.
JournalKept ==
  \A i \in DOMAIN requests :
    /\ nullifiers'[requests[i].coin].status \in {"unknown", "clearance_reserved"}
    /\ wallet.pending = i \/ wallet.coin = NoCoin
    => wallet'.pending = i \/ wallet'.coin = NoCoin

StoreStep == StoreOK' /\ Grows /\ Moves /\ JournalKept

\* The wallet's state has no accepted request unless that one is journalled.
LEMMA FreeState ==
  ASSUME StoreOK, NEW w, WalletOK(w), w.pending = 0, w.coin # NoCoin
  PROVE  w.coin \in Coin /\ nullifiers[w.coin].status \in {"unknown", "clearance_reserved"}
<1>1. w.coin \in Coin
  BY DEF WalletOK, Wallets
<1>2. nullifiers[w.coin].status \in {"unknown", "reserved", "finalized", "clearance_reserved"}
  BY <1>1 DEF StoreOK, ServerTypes
<1>3. ASSUME nullifiers[w.coin].status \in {"reserved", "finalized"} PROVE FALSE
  <2>1. nullifiers[w.coin].id = 0 BY <1>3 DEF WalletOK
  <2>2. nullifiers[w.coin].id \in DOMAIN requests BY <1>1, <1>3 DEF StoreOK, RowsAnswerRequests
  <2>3. nullifiers[w.coin].id # 0 BY <2>2, RequestTypes DEF StoreOK
  <2> QED BY <2>1, <2>3
<1> QED BY <1>1, <1>2, <1>3

\* A step that leaves the wallet files and the server's and the vault's records alone.
LEMMA StoreIdle ==
  ASSUME StoreOK, UNCHANGED <<mode, wallet, requests, vault, serverVars>>
  PROVE  StoreStep
<1>1. UNCHANGED <<mode, wallet, requests, vault, nullifiers, leases, expired>>
  BY DEF serverVars
<1>2. StoreOK'
  BY <1>1 DEF StoreOK, ServerTypes, WalletOK, RequestsOK, RowsAnswerRequests, Row
<1>3. Grows BY <1>1 DEF Grows
<1>4. Moves BY <1>1 DEF Moves
<1>5. JournalKept BY <1>1 DEF JournalKept
<1> QED BY <1>2, <1>3, <1>4, <1>5 DEF StoreStep

\* The wallet after Wallet::recover is in order.
LEMMA RecoveredOK ==
  ASSUME StoreOK
  PROVE  /\ WalletOK(Recovered)
         /\ ~Recoverable => Recovered = wallet
         /\ Recoverable =>
              /\ wallet.pending \in DOMAIN requests /\ wallet.coin \in Coin
              /\ requests[wallet.pending].coin = wallet.coin
              /\ nullifiers[wallet.coin].status = "finalized"
              /\ Recovered.coin \in Coin /\ Recovered.coin.note = wallet.coin.note
              /\ Recovered.coin.state = wallet.coin.state + 1
              /\ Recovered.pending = 0
<1>1. WalletOK(wallet) /\ wallet \in Wallets
  BY DEF StoreOK, WalletOK
<1>2. ~Recoverable => Recovered = wallet
  BY DEF Recovered
<1>3. ASSUME Recoverable
      PROVE  /\ wallet.pending \in DOMAIN requests /\ wallet.coin \in Coin
             /\ requests[wallet.pending].coin = wallet.coin
             /\ nullifiers[wallet.coin].status = "finalized"
             /\ Recovered = [coin |-> NextCoin(wallet.coin), pending |-> 0]
  <2>1. wallet.pending # 0 /\ Row(wallet.pending) = [status |-> "finalized", id |-> wallet.pending]
    BY <1>3 DEF Recoverable
  <2>2. wallet.pending \in DOMAIN requests /\ wallet.coin # NoCoin
        /\ requests[wallet.pending].coin = wallet.coin
    BY <1>1, <2>1 DEF WalletOK
  <2>3. wallet.coin \in Coin BY <2>2, <1>1 DEF Wallets
  <2> QED BY <2>1, <2>2, <2>3, <1>3 DEF Row, Recovered
<1>4. ASSUME Recoverable
      PROVE  /\ NextCoin(wallet.coin) \in Coin
             /\ NextCoin(wallet.coin).note = wallet.coin.note
             /\ NextCoin(wallet.coin).state = wallet.coin.state + 1
  <2>1. wallet.coin.state < MaxState
    BY <1>3, <1>4 DEF StoreOK, RequestsOK
  <2>2. wallet.coin \in Coin BY <1>3, <1>4
  <2>3. MaxState \in Nat BY ClientAssumption
  <2> QED BY <2>1, <2>2, <2>3 DEF NextCoin, Coin
<1>5. ASSUME Recoverable PROVE WalletOK(Recovered)
  <2> PICK w : w = Recovered OBVIOUS
  <2> PICK d : d = NextCoin(wallet.coin) OBVIOUS
  <2>1. w = [coin |-> d, pending |-> 0] /\ w.coin = d /\ w.pending = 0
    BY <1>3, <1>5
  <2>2. d \in Coin /\ d.note = wallet.coin.note /\ d.state = wallet.coin.state + 1
    BY <1>4, <1>5
  <2>3. w \in Wallets BY <2>1, <2>2 DEF Wallets
  <2>4. vault[d.note].status # "none"
    BY <2>2, <1>1, <1>3, <1>5, Coins DEF WalletOK
  <2>5. \A i \in DOMAIN requests : requests[i].coin.note = d.note => requests[i].coin.state < d.state
    <3> SUFFICES ASSUME NEW i \in DOMAIN requests, requests[i].coin.note = d.note
                 PROVE  requests[i].coin.state < d.state
      OBVIOUS
    <3>1. requests[i].coin.state <= wallet.coin.state
      BY <2>2, <1>1 DEF WalletOK
    <3>2. requests[i].coin.state \in Nat BY RequestTypes, Coins DEF StoreOK
    <3>3. wallet.coin.state \in Nat BY <1>3, <1>5, Coins
    <3> QED BY <3>1, <3>2, <3>3, <2>2
  <2>6. nullifiers[d].status \notin {"reserved", "finalized"}
    <3> SUFFICES ASSUME nullifiers[d].status \in {"reserved", "finalized"} PROVE FALSE
      OBVIOUS
    <3> PICK i : i = nullifiers[d].id OBVIOUS
    <3>1. i \in DOMAIN requests /\ requests[i].coin = d
      BY <2>2 DEF StoreOK, RowsAnswerRequests
    <3>2. d.state < d.state BY <3>1, <2>5
    <3>3. d.state \in Nat BY <2>2, Coins
    <3> QED BY <3>2, <3>3
  <2>7. \A i \in DOMAIN requests : requests[i].coin.note = d.note => requests[i].coin.state <= d.state
    <3>1. d.state \in Nat /\ \A i \in DOMAIN requests : requests[i].coin.state \in Nat
      BY <2>2, Coins, RequestTypes DEF StoreOK
    <3> QED BY <3>1, <2>5
  <2>8. WalletOK(w)
    BY <2>1, <2>3, <2>4, <2>6, <2>7 DEF WalletOK
  <2> QED BY <2>8
<1>6. ~Recoverable => WalletOK(Recovered)
  BY <1>1, <1>2
<1>7. Recoverable =>
        /\ Recovered.coin \in Coin /\ Recovered.coin.note = wallet.coin.note
        /\ Recovered.coin.state = wallet.coin.state + 1
        /\ Recovered.pending = 0
  BY <1>3, <1>4
<1> QED BY <1>2, <1>3, <1>5, <1>6, <1>7

-----------------------------------------------------------------------------
(* The wallet files, the server and the vault: one lemma per kind of change *)

\* The wallet files are replaced by others that are in order.
LEMMA WalletReplaced ==
  ASSUME StoreOK, UNCHANGED <<mode, requests, vault, serverVars>>,
         NEW w, WalletOK(w), wallet' = w
  PROVE  StoreOK' /\ Grows
<1>1. UNCHANGED <<mode, requests, vault, nullifiers, leases, expired>>
  BY DEF serverVars
<1>2. ServerTypes' /\ RequestsOK' /\ RowsAnswerRequests'
  BY <1>1 DEF StoreOK, ServerTypes, RequestsOK, RowsAnswerRequests, Row
<1>3. WalletOK(wallet)'
  BY <1>1 DEF WalletOK
<1>4. Grows BY <1>1 DEF Grows
<1> QED BY <1>2, <1>3, <1>4 DEF StoreOK

\* How the wallet moves from its files to the recovered ones.
LEMMA RecoveredMoves ==
  ASSUME StoreOK, wallet'.coin = Recovered.coin
  PROVE  Moves
<1>1. CASE ~Recoverable BY <1>1, RecoveredOK DEF Moves
<1>2. CASE Recoverable BY <1>2, RecoveredOK DEF Moves
<1> QED BY <1>1, <1>2

\* Wallet::recover on the wallet files
LEMMA StoreRecovers ==
  ASSUME StoreOK, UNCHANGED <<mode, requests, vault, serverVars>>, wallet' = Recovered
  PROVE  StoreStep
<1> PICK w : w = Recovered OBVIOUS
<1>1. StoreOK' /\ Grows BY RecoveredOK, WalletReplaced
<1>2. Moves BY RecoveredMoves
<1>3. JournalKept
  <2>1. CASE ~Recoverable BY <2>1, RecoveredOK DEF JournalKept
  <2>2. CASE Recoverable
    <3>1. nullifiers' = nullifiers BY DEF serverVars
    <3>2. wallet.coin # NoCoin BY <2>2, RecoveredOK, Coins
    <3>3. nullifiers[requests[wallet.pending].coin].status = "finalized" BY <2>2, RecoveredOK
    <3> QED BY <3>1, <3>2, <3>3 DEF JournalKept
  <2> QED BY <2>1, <2>2
<1> QED BY <1>1, <1>2, <1>3 DEF StoreStep

\* clear_pending_request, when the server has not accepted a request for the state
LEMMA StoreClears ==
  ASSUME StoreOK, UNCHANGED <<mode, requests, vault, serverVars>>, wallet' = Cleared,
         wallet.coin # NoCoin => nullifiers[wallet.coin].status \in {"unknown", "clearance_reserved"}
  PROVE  StoreOK' /\ Grows /\ Moves
<1> PICK w : w = Cleared OBVIOUS
<1>1. WalletOK(wallet) /\ wallet \in Wallets BY DEF StoreOK, WalletOK
<1>2. w.coin = wallet.coin /\ w.pending = 0 /\ w \in Wallets
  BY <1>1 DEF Cleared, Wallets
<1>3. WalletOK(w) BY <1>1, <1>2 DEF WalletOK
<1>4. StoreOK' /\ Grows BY <1>3, WalletReplaced
<1>5. Moves BY <1>2 DEF Moves
<1> QED BY <1>4, <1>5

\* reset_wallet and the retirement of a spent note
LEMMA StoreForgets ==
  ASSUME StoreOK, UNCHANGED <<mode, requests, vault, serverVars>>,
         wallet'.coin = NoCoin, wallet'.pending = 0, wallet' \in Wallets
  PROVE  StoreOK' /\ Grows /\ JournalKept
<1> PICK w : w = wallet' OBVIOUS
<1>1. \A i \in DOMAIN requests : requests[i].coin.note # 0
  BY RequestTypes, Coins DEF StoreOK
<1>2. WalletOK(w) BY <1>1, Coins DEF WalletOK
<1>3. StoreOK' /\ Grows BY <1>2, WalletReplaced
<1> QED BY <1>3 DEF JournalKept

\* A proof for the state of w, which is the wallet's or its recovered one, is journalled.
LEMMA JournalAppends ==
  ASSUME StoreOK, NEW w, WalletOK(w), CanProve(w), NEW kind \in {"lease", "proxy"}, Journal(w, kind)
  PROVE  /\ w.coin \in Coin /\ w.pending = 0 /\ w.coin.state < MaxState
         /\ nullifiers[w.coin].status \in {"unknown", "clearance_reserved"}
         /\ vault[w.coin.note].status = "active"
         /\ requests' \in Seq(Requests) /\ Len(requests') <= MaxRequests
         /\ DOMAIN requests' = DOMAIN requests \cup {NewId} /\ NewId \notin DOMAIN requests
         /\ NewId \in Ids /\ NewId # 0
         /\ \A i \in DOMAIN requests : requests'[i] = requests[i]
         /\ requests'[NewId].coin = w.coin /\ requests'[NewId].kind = kind
<1>1. w.pending = 0 /\ w.coin # NoCoin /\ vault[w.coin.note].status = "active"
      /\ w.coin.state < MaxState /\ Len(requests) < MaxRequests
  BY DEF CanProve, InTree
<1>2. w.coin \in Coin /\ nullifiers[w.coin].status \in {"unknown", "clearance_reserved"}
  BY <1>1, FreeState
<1>3. requests \in Seq(Requests) /\ Len(requests) \in Nat /\ MaxRequests \in Nat
  BY ClientAssumption, RequestTypes DEF StoreOK, ServerTypes
<1> DEFINE r == [coin |-> w.coin, kind |-> kind]
<1>4. r \in Requests /\ r.coin = w.coin /\ r.kind = kind
  BY <1>2 DEF Requests
<1>5. requests' = Append(requests, r) BY DEF Journal
<1> HIDE DEF r
<1>6. /\ requests' \in Seq(Requests) /\ Len(requests') = Len(requests) + 1
      /\ DOMAIN requests' = 1..(Len(requests) + 1)
      /\ \A i \in 1..Len(requests) : requests'[i] = requests[i]
      /\ requests'[Len(requests) + 1] = r
  BY <1>3, <1>4, <1>5
<1>7. DOMAIN requests = 1..Len(requests) BY RequestTypes DEF StoreOK
<1>8. NewId \in Ids /\ NewId # 0 /\ NewId \notin DOMAIN requests
      /\ DOMAIN requests' = DOMAIN requests \cup {NewId} /\ Len(requests') <= MaxRequests
  BY <1>1, <1>3, <1>6, <1>7 DEF NewId, Ids
<1> QED BY <1>1, <1>2, <1>4, <1>6, <1>7, <1>8 DEF NewId

\* The requests and the rows after a new request, which the server may have accepted.
LEMMA NewRequestRows ==
  ASSUME StoreOK, NEW w, WalletOK(w), CanProve(w), NEW kind \in {"lease", "proxy"}, Journal(w, kind),
         NEW s \in {"reserved", "finalized"},
         \/ nullifiers' = nullifiers
         \/ /\ nullifiers[w.coin].status = "unknown"
            /\ nullifiers' = [nullifiers EXCEPT ![w.coin] = [status |-> s, id |-> NewId]],
         UNCHANGED <<mode, leases, expired, vault>>
  PROVE  ServerTypes' /\ RequestsOK' /\ RowsAnswerRequests' /\ Grows
<1>1. w.coin \in Coin /\ NewId \in Ids /\ NewId # 0
  BY JournalAppends
<1>2. nullifiers[w.coin].status \in {"unknown", "clearance_reserved"}
  BY JournalAppends
<1> DEFINE row == [status |-> s, id |-> NewId]
<1>3. row.status = s /\ row.id = NewId
      /\ row \in [status : {"unknown", "reserved", "finalized", "clearance_reserved"}, id : Ids \cup {0}]
  BY <1>1
<1>4. \/ nullifiers' = nullifiers
      \/ nullifiers' = [nullifiers EXCEPT ![w.coin] = row]
  OBVIOUS
<1> HIDE DEF row
<1>5. nullifiers \in [Coin -> [status : {"unknown", "reserved", "finalized", "clearance_reserved"},
                               id : Ids \cup {0}]]
  BY DEF StoreOK, ServerTypes
<1>6. nullifiers' \in [Coin -> [status : {"unknown", "reserved", "finalized", "clearance_reserved"},
                                id : Ids \cup {0}]]
      /\ (\A c \in Coin : c # w.coin => nullifiers'[c] = nullifiers[c])
      /\ (nullifiers'[w.coin] = nullifiers[w.coin] \/ nullifiers'[w.coin] = row)
  BY <1>1, <1>3, <1>4, <1>5
<1>7. ServerTypes'
  BY <1>6, JournalAppends DEF StoreOK, ServerTypes
<1>8. RequestsOK'
  BY JournalAppends DEF StoreOK, RequestsOK
<1>9. \A c \in Coin : nullifiers'[c].status \in {"reserved", "finalized"} =>
        nullifiers'[c].id \in DOMAIN requests' /\ requests'[nullifiers'[c].id].coin = c
  <2> SUFFICES ASSUME NEW c \in Coin, nullifiers'[c].status \in {"reserved", "finalized"}
               PROVE  nullifiers'[c].id \in DOMAIN requests' /\ requests'[nullifiers'[c].id].coin = c
    OBVIOUS
  <2>1. CASE nullifiers'[c] = nullifiers[c]
    <3>1. nullifiers[c].id \in DOMAIN requests /\ requests[nullifiers[c].id].coin = c
      BY <2>1 DEF StoreOK, RowsAnswerRequests
    <3> QED BY <2>1, <3>1, JournalAppends
  <2>2. CASE c = w.coin /\ nullifiers'[c] = row
    BY <2>2, <1>3, JournalAppends
  <2> QED BY <2>1, <2>2, <1>6
<1>10. \A i \in Ids : leases'[i] # "none" =>
         /\ i \in DOMAIN requests'
         /\ nullifiers'[requests'[i].coin].id = i
         /\ nullifiers'[requests'[i].coin].status \in {"reserved", "finalized"}
  <2> SUFFICES ASSUME NEW i \in Ids, leases[i] # "none"
               PROVE  /\ i \in DOMAIN requests'
                      /\ nullifiers'[requests'[i].coin].id = i
                      /\ nullifiers'[requests'[i].coin].status \in {"reserved", "finalized"}
    OBVIOUS
  <2>1. i \in DOMAIN requests /\ nullifiers[requests[i].coin].id = i
        /\ nullifiers[requests[i].coin].status \in {"reserved", "finalized"}
    BY DEF StoreOK, RowsAnswerRequests, Row
  <2>2. requests[i].coin \in Coin BY <2>1, RequestTypes DEF StoreOK
  <2>3. requests[i].coin # w.coin BY <2>1, <1>2
  <2> QED BY <2>1, <2>2, <2>3, <1>6, JournalAppends
<1>11. RowsAnswerRequests'
  BY <1>9, <1>10 DEF RowsAnswerRequests, Row
<1>12. Grows
  <2>1. \A i \in DOMAIN requests : requests'[i] = requests[i] BY JournalAppends
  <2>2. DOMAIN requests \subseteq DOMAIN requests' BY JournalAppends
  <2>3. ASSUME NEW c \in Coin
        PROVE  /\ nullifiers[c].status = "clearance_reserved"
                    => nullifiers'[c].status = "clearance_reserved"
               /\ nullifiers'[c].status \in {"unknown", "clearance_reserved"}
                    => nullifiers[c].status \in {"unknown", "clearance_reserved"}
    BY <1>6, <1>2
  <2> QED BY <2>1, <2>2, <2>3 DEF Grows
<1> QED BY <1>7, <1>8, <1>11, <1>12

\* The new request is in the journal.
LEMMA NewRequestSent ==
  ASSUME StoreOK, NEW w, WalletOK(w), CanProve(w), NEW kind \in {"lease", "proxy"}, Journal(w, kind),
         NEW s \in {"reserved", "finalized"},
         \/ nullifiers' = nullifiers
         \/ /\ nullifiers[w.coin].status = "unknown"
            /\ nullifiers' = [nullifiers EXCEPT ![w.coin] = [status |-> s, id |-> NewId]],
         UNCHANGED <<mode, leases, expired, vault>>,
         wallet' = [w EXCEPT !.pending = NewId]
  PROVE  StoreOK' /\ Grows /\ wallet'.coin = w.coin
<1>1. ServerTypes' /\ RequestsOK' /\ RowsAnswerRequests' /\ Grows
  BY NewRequestRows
<1>2. w.coin \in Coin /\ NewId \in Ids /\ w \in Wallets
  BY JournalAppends DEF WalletOK
<1>3. wallet' \in Wallets /\ wallet'.coin = w.coin /\ wallet'.pending = NewId
  BY <1>2 DEF Wallets
<1>4. nullifiers'[w.coin] = nullifiers[w.coin] \/ nullifiers'[w.coin].id = NewId
  BY <1>2 DEF StoreOK, ServerTypes
<1>5. nullifiers'[w.coin].status \in {"reserved", "finalized"} => nullifiers'[w.coin].id = NewId
  BY <1>4, JournalAppends
<1>6. \A i \in DOMAIN requests' :
        requests'[i].coin.note = w.coin.note => requests'[i].coin.state <= w.coin.state
  <2> SUFFICES ASSUME NEW i \in DOMAIN requests', requests'[i].coin.note = w.coin.note
               PROVE  requests'[i].coin.state <= w.coin.state
    OBVIOUS
  <2>1. CASE i \in DOMAIN requests BY <2>1, JournalAppends DEF WalletOK
  <2>2. CASE i = NewId
    <3>1. w.coin.state \in Nat BY <1>2, Coins
    <3> QED BY <2>2, <3>1, JournalAppends
  <2> QED BY <2>1, <2>2, JournalAppends
<1>7. NewId \in DOMAIN requests' /\ requests'[NewId].coin = w.coin /\ vault'[w.coin.note].status # "none"
  BY JournalAppends
<1>8. WalletOK(wallet)'
  BY <1>2, <1>3, <1>5, <1>6, <1>7, Coins DEF WalletOK, Wallets
<1> QED BY <1>1, <1>3, <1>8 DEF StoreOK

\* The new request is answered and its next state installed.
LEMMA NewRequestAnswered ==
  ASSUME StoreOK, NEW w, WalletOK(w), CanProve(w), NEW kind \in {"lease", "proxy"}, Journal(w, kind),
         nullifiers[w.coin].status = "unknown",
         nullifiers' = [nullifiers EXCEPT ![w.coin] = [status |-> "finalized", id |-> NewId]],
         UNCHANGED <<mode, leases, expired, vault>>,
         wallet' = [coin |-> NextCoin(w.coin), pending |-> 0]
  PROVE  /\ StoreOK' /\ Grows
         /\ wallet'.coin \in Coin /\ wallet'.coin.note = w.coin.note
<1>1. ServerTypes' /\ RequestsOK' /\ RowsAnswerRequests' /\ Grows
  BY NewRequestRows
<1> PICK d : d = NextCoin(w.coin) OBVIOUS
<1>2. w.coin \in Coin /\ w.coin.state < MaxState /\ w.coin.state \in Nat
  BY JournalAppends, Coins
<1>3. d \in Coin /\ d.note = w.coin.note /\ d.state = w.coin.state + 1
  BY <1>2, ClientAssumption DEF NextCoin, Coin
<1>4. wallet' \in Wallets /\ wallet'.coin = d /\ wallet'.pending = 0
  BY <1>3 DEF Wallets
<1>5. \A i \in DOMAIN requests' : requests'[i].coin.note = d.note => requests'[i].coin.state < d.state
  <2> SUFFICES ASSUME NEW i \in DOMAIN requests', requests'[i].coin.note = d.note
               PROVE  requests'[i].coin.state < d.state
    OBVIOUS
  <2>1. CASE i \in DOMAIN requests
    <3>1. requests'[i] = requests[i] /\ requests[i].coin.state \in Nat
      BY <2>1, JournalAppends, RequestTypes, Coins DEF StoreOK
    <3>2. requests[i].coin.state <= w.coin.state
      BY <2>1, <3>1, <1>3 DEF WalletOK
    <3> QED BY <3>1, <3>2, <1>2, <1>3
  <2>2. CASE i = NewId BY <2>2, <1>2, <1>3, JournalAppends
  <2> QED BY <2>1, <2>2, JournalAppends
<1>6. nullifiers'[d].status \notin {"reserved", "finalized"}
  <2> SUFFICES ASSUME nullifiers'[d].status \in {"reserved", "finalized"} PROVE FALSE
    OBVIOUS
  <2>1. nullifiers'[d].id \in DOMAIN requests' /\ requests'[nullifiers'[d].id].coin = d
    BY <1>1, <1>3 DEF RowsAnswerRequests
  <2>2. d.state < d.state /\ d.state \in Nat BY <2>1, <1>5, <1>3, Coins
  <2> QED BY <2>2
<1>7. \A i \in DOMAIN requests' : requests'[i].coin.note = d.note => requests'[i].coin.state <= d.state
  <2>1. d.state \in Nat BY <1>3, Coins
  <2>2. \A i \in DOMAIN requests' : requests'[i].coin.state \in Nat
    BY JournalAppends, RequestTypes, Coins DEF StoreOK
  <2> QED BY <2>1, <2>2, <1>5
<1>8. vault'[d.note].status # "none" BY <1>3, JournalAppends
<1>9. WalletOK(wallet)' BY <1>4, <1>6, <1>7, <1>8 DEF WalletOK, Wallets
<1> QED BY <1>1, <1>3, <1>4, <1>9 DEF StoreOK

\* A journalled lease request of prepare_direct_lease_request
LEMMA StoreJournals ==
  ASSUME StoreOK, CanProve(wallet), Journal(wallet, "lease"),
         wallet' = [wallet EXCEPT !.pending = NewId], UNCHANGED <<mode, vault, serverVars>>
  PROVE  StoreStep
<1> PICK w : w = wallet OBVIOUS
<1>1. WalletOK(w) BY DEF StoreOK
<1>2. UNCHANGED <<mode, vault, nullifiers, leases, expired>> BY DEF serverVars
<1>3. StoreOK' /\ Grows /\ wallet'.coin = w.coin
  BY <1>1, <1>2, NewRequestSent
<1>4. Moves BY <1>3 DEF Moves
<1>5. wallet.pending = 0 /\ wallet.coin # NoCoin BY DEF CanProve, InTree
<1>6. \A i \in DOMAIN requests : i # 0 BY RequestTypes DEF StoreOK
<1>7. JournalKept BY <1>5, <1>6 DEF JournalKept
<1> QED BY <1>3, <1>4, <1>7 DEF StoreStep

\* A recovered wallet that can prove has no request in its journal to lose.
LEMMA NothingToLose ==
  ASSUME StoreOK, Grows, CanProve(Recovered)
  PROVE  JournalKept
<1>1. Recovered.pending = 0 /\ Recovered.coin # NoCoin BY DEF CanProve, InTree
<1>2. CASE ~Recoverable
  <2>1. wallet.pending = 0 /\ wallet.coin # NoCoin BY <1>1, <1>2, RecoveredOK
  <2>2. \A i \in DOMAIN requests : i # 0 BY RequestTypes DEF StoreOK
  <2> QED BY <2>1, <2>2 DEF JournalKept
<1>3. CASE Recoverable
  <2>1. wallet.coin \in Coin /\ wallet.coin # NoCoin BY <1>3, RecoveredOK, Coins
  <2>2. requests[wallet.pending].coin = wallet.coin /\ nullifiers[wallet.coin].status = "finalized"
    BY <1>3, RecoveredOK
  <2>3. nullifiers'[wallet.coin].status \notin {"unknown", "clearance_reserved"}
    BY <2>1, <2>2 DEF Grows
  <2> QED BY <2>1, <2>2, <2>3 DEF JournalKept
<1> QED BY <1>2, <1>3

\* The recovery and the new request of execute_request_demo
LEMMA StoreServesProxy ==
  ASSUME StoreOK, ProxyOutcome(Recovered), UNCHANGED <<mode, leases, expired, vault>>
  PROVE  StoreStep
<1> PICK w : w = Recovered OBVIOUS
<1>1. ProxyOutcome(w) /\ WalletOK(w) BY RecoveredOK
<1>2. CASE wallet' = w /\ UNCHANGED <<requests, nullifiers>>
  BY <1>2, StoreRecovers DEF serverVars
<1>3. CASE /\ CanProve(w) /\ Journal(w, "proxy") /\ wallet' = [w EXCEPT !.pending = NewId]
           /\ \/ nullifiers' = nullifiers
              \/ /\ nullifiers[w.coin].status = "unknown"
                 /\ nullifiers' = [nullifiers EXCEPT ![w.coin] = [status |-> "reserved", id |-> NewId]]
  <2>1. "proxy" \in {"lease", "proxy"} /\ "reserved" \in {"reserved", "finalized"} OBVIOUS
  <2>2. StoreOK' /\ Grows /\ wallet'.coin = w.coin
    BY <1>1, <1>3, <2>1, NewRequestSent
  <2>3. Moves BY <2>2, RecoveredMoves
  <2>4. JournalKept BY <1>3, <2>2, NothingToLose
  <2> QED BY <2>2, <2>3, <2>4 DEF StoreStep
<1>4. CASE /\ CanProve(w) /\ Journal(w, "proxy") /\ nullifiers[w.coin].status = "unknown"
           /\ nullifiers' = [nullifiers EXCEPT ![w.coin] = [status |-> "finalized", id |-> NewId]]
           /\ wallet' = [coin |-> NextCoin(w.coin), pending |-> 0]
  <2>1. "proxy" \in {"lease", "proxy"} OBVIOUS
  <2>2. StoreOK' /\ Grows /\ wallet'.coin \in Coin /\ wallet'.coin.note = w.coin.note
    BY <1>1, <1>4, <2>1, NewRequestAnswered
  <2>3. Moves
    <3>1. CASE Recoverable BY <3>1, <2>2, RecoveredOK DEF Moves
    <3>2. CASE ~Recoverable
      <4>1. w.coin \in Coin BY <1>1, <1>4 DEF WalletOK, Wallets, CanProve, InTree
      <4> QED BY <3>2, <4>1, <2>2, <1>4, RecoveredOK DEF Moves
    <3> QED BY <3>1, <3>2
  <2>4. JournalKept BY <1>4, <2>2, NothingToLose
  <2> QED BY <2>2, <2>3, <2>4 DEF StoreStep
<1> QED BY <1>1, <1>2, <1>3, <1>4 DEF ProxyOutcome

\* A row k of the server and its leases change to what the requests and the journal allow.
RowChanges(k, row) ==
  /\ k \in Coin
  /\ row \in [status : {"unknown", "reserved", "finalized", "clearance_reserved"}, id : Ids \cup {0}]
  /\ nullifiers' = [nullifiers EXCEPT ![k] = row]
  /\ leases' \in [Ids -> {"none", "active", "finalized"}]
  /\ \A i \in Ids : leases[i] # "none" => leases'[i] # "none"
  /\ row.status \in {"reserved", "finalized"} =>
       /\ row.id \in DOMAIN requests /\ requests[row.id].coin = k
       /\ wallet.coin = k => wallet.pending = row.id
  /\ \A i \in Ids : leases'[i] # "none" =>
       \/ leases[i] # "none" /\ requests[i].coin # k
       \/ /\ i \in DOMAIN requests /\ requests[i].coin = k
          /\ row.id = i /\ row.status \in {"reserved", "finalized"}
  /\ nullifiers[k].status = "clearance_reserved" => row.status = "clearance_reserved"
  /\ row.status \in {"unknown", "clearance_reserved"}
       => nullifiers[k].status \in {"unknown", "clearance_reserved"}

\* Such a change keeps the store in order; the wallet files do not change.
LEMMA StoreRowChanges ==
  ASSUME StoreOK, UNCHANGED <<mode, wallet, requests, expired, vault>>,
         NEW k, NEW row, RowChanges(k, row)
  PROVE  StoreStep
<1> USE DEF RowChanges
<1>1. nullifiers'[k] = row /\ \A c \in Coin : c # k => nullifiers'[c] = nullifiers[c]
  BY DEF StoreOK, ServerTypes
<1>2. ServerTypes' BY DEF StoreOK, ServerTypes
<1>3. RequestsOK' BY DEF StoreOK, RequestsOK
<1>4. WalletOK(wallet)'
  <2>1. WalletOK(wallet) BY DEF StoreOK
  <2>2. wallet.coin # NoCoin => wallet.coin \in Coin BY <2>1 DEF WalletOK, Wallets
  <2>3. wallet.coin # NoCoin /\ nullifiers'[wallet.coin].status \in {"reserved", "finalized"}
          => wallet.pending = nullifiers'[wallet.coin].id
    BY <2>1, <2>2, <1>1 DEF WalletOK
  <2> QED BY <2>1, <2>3 DEF WalletOK
<1>5. \A c \in Coin : nullifiers'[c].status \in {"reserved", "finalized"} =>
        nullifiers'[c].id \in DOMAIN requests /\ requests[nullifiers'[c].id].coin = c
  BY <1>1 DEF StoreOK, RowsAnswerRequests
<1>6. \A i \in Ids : leases'[i] # "none" =>
        /\ i \in DOMAIN requests
        /\ nullifiers'[requests[i].coin].id = i
        /\ nullifiers'[requests[i].coin].status \in {"reserved", "finalized"}
  <2> SUFFICES ASSUME NEW i \in Ids, leases'[i] # "none"
               PROVE  /\ i \in DOMAIN requests
                      /\ nullifiers'[requests[i].coin].id = i
                      /\ nullifiers'[requests[i].coin].status \in {"reserved", "finalized"}
    OBVIOUS
  <2>1. CASE leases[i] # "none" /\ requests[i].coin # k
    <3>1. i \in DOMAIN requests /\ nullifiers[requests[i].coin].id = i
          /\ nullifiers[requests[i].coin].status \in {"reserved", "finalized"}
      BY <2>1 DEF StoreOK, RowsAnswerRequests, Row
    <3>2. requests[i].coin \in Coin BY <3>1, RequestTypes DEF StoreOK
    <3> QED BY <2>1, <3>1, <3>2, <1>1
  <2>2. CASE i \in DOMAIN requests /\ requests[i].coin = k
             /\ row.id = i /\ row.status \in {"reserved", "finalized"}
    BY <2>2, <1>1
  <2> QED BY <2>1, <2>2
<1>7. RowsAnswerRequests' BY <1>5, <1>6 DEF RowsAnswerRequests, Row
<1>8. Grows
  <2>1. ASSUME NEW c \in Coin
        PROVE  /\ nullifiers[c].status = "clearance_reserved"
                    => nullifiers'[c].status = "clearance_reserved"
               /\ nullifiers'[c].status \in {"unknown", "clearance_reserved"}
                    => nullifiers[c].status \in {"unknown", "clearance_reserved"}
    BY <1>1
  <2> QED BY <2>1 DEF Grows
<1>9. Moves /\ JournalKept BY DEF Moves, JournalKept
<1> QED BY <1>2, <1>3, <1>4, <1>7, <1>8, <1>9 DEF StoreStep, StoreOK

\* The server accepts a lease request that is in the journal or whose row it has reserved.
LEMMA StoreOpensLease ==
  ASSUME StoreOK, UNCHANGED <<mode, wallet, requests, expired, vault>>, NEW id \in DOMAIN requests,
         \/ Row(id).status = "unknown" /\ (wallet.pending = id \/ wallet.coin = NoCoin)
         \/ Row(id) = [status |-> "reserved", id |-> id],
         nullifiers' = [nullifiers EXCEPT ![requests[id].coin] = [status |-> "reserved", id |-> id]],
         leases' = leases \/ leases' = [leases EXCEPT ![id] = "active"]
  PROVE  StoreStep
<1> PICK k : k = requests[id].coin OBVIOUS
<1>1. k \in Coin /\ id \in Ids /\ id # 0 BY RequestTypes DEF StoreOK
<1> PICK row : row = [status |-> "reserved", id |-> id] OBVIOUS
<1>2. row.status = "reserved" /\ row.id = id
      /\ row \in [status : {"unknown", "reserved", "finalized", "clearance_reserved"}, id : Ids \cup {0}]
  BY <1>1
<1>3. \/ nullifiers[k].status = "unknown" /\ (wallet.pending = id \/ wallet.coin = NoCoin)
      \/ nullifiers[k].status = "reserved" /\ nullifiers[k].id = id
  BY DEF Row
<1>4. leases \in [Ids -> {"none", "active", "finalized"}] BY DEF StoreOK, ServerTypes
<1>5. leases' \in [Ids -> {"none", "active", "finalized"}]
      /\ (\A i \in Ids : leases[i] # "none" => leases'[i] # "none")
      /\ (\A i \in Ids : leases'[i] # "none" => i = id \/ leases[i] # "none")
  BY <1>1, <1>4
<1>6. wallet.coin = k => wallet.pending = id
  BY <1>1, <1>3, Coins DEF StoreOK, WalletOK
<1>7. \A i \in Ids : leases'[i] # "none" =>
        \/ leases[i] # "none" /\ requests[i].coin # k
        \/ i \in DOMAIN requests /\ requests[i].coin = k /\ row.id = i /\ row.status \in {"reserved", "finalized"}
  <2> SUFFICES ASSUME NEW i \in Ids, leases'[i] # "none", i # id
               PROVE  leases[i] # "none" /\ requests[i].coin # k
    BY <1>2
  <2>1. leases[i] # "none" BY <1>5
  <2>2. nullifiers[requests[i].coin].id = i
        /\ nullifiers[requests[i].coin].status \in {"reserved", "finalized"}
    BY <2>1 DEF StoreOK, RowsAnswerRequests, Row
  <2> QED BY <2>1, <2>2, <1>3
<1>8. nullifiers' = [nullifiers EXCEPT ![k] = row] OBVIOUS
<1>9. RowChanges(k, row)
  BY <1>1, <1>2, <1>3, <1>5, <1>6, <1>7, <1>8 DEF RowChanges
<1> QED BY <1>9, StoreRowChanges

\* The server finishes the request whose row it has reserved: a settled lease or a
\* proxied request.
LEMMA StoreFinishes ==
  ASSUME StoreOK, UNCHANGED <<mode, wallet, requests, expired, vault>>, NEW id \in DOMAIN requests,
         Row(id).id = id, Row(id).status \in {"reserved", "finalized"},
         nullifiers' = [nullifiers EXCEPT ![requests[id].coin].status = "finalized"],
         \/ leases' = leases
         \/ leases[id] # "none" /\ leases' = [leases EXCEPT ![id] = "finalized"]
  PROVE  StoreStep
<1> PICK k : k = requests[id].coin OBVIOUS
<1>1. k \in Coin /\ id \in Ids /\ id # 0 BY RequestTypes DEF StoreOK
<1>2. nullifiers[k].id = id /\ nullifiers[k].status \in {"reserved", "finalized"} BY DEF Row
<1> PICK row : row = [nullifiers[k] EXCEPT !.status = "finalized"] OBVIOUS
<1>3. nullifiers[k] \in [status : {"unknown", "reserved", "finalized", "clearance_reserved"}, id : Ids \cup {0}]
  BY <1>1 DEF StoreOK, ServerTypes
<1>4. row.status = "finalized" /\ row.id = id
      /\ row \in [status : {"unknown", "reserved", "finalized", "clearance_reserved"}, id : Ids \cup {0}]
  BY <1>2, <1>3
<1>5. leases \in [Ids -> {"none", "active", "finalized"}] BY DEF StoreOK, ServerTypes
<1>6. leases' \in [Ids -> {"none", "active", "finalized"}]
      /\ (\A i \in Ids : leases[i] # "none" <=> leases'[i] # "none")
  BY <1>1, <1>5
<1>7. wallet.coin = k => wallet.pending = id
  BY <1>1, <1>2, Coins DEF StoreOK, WalletOK
<1>8. \A i \in Ids : leases'[i] # "none" =>
        \/ leases[i] # "none" /\ requests[i].coin # k
        \/ i \in DOMAIN requests /\ requests[i].coin = k /\ row.id = i /\ row.status \in {"reserved", "finalized"}
  <2> SUFFICES ASSUME NEW i \in Ids, leases'[i] # "none", requests[i].coin = k
               PROVE  i \in DOMAIN requests /\ row.id = i
    BY <1>4, <1>6
  <2> QED BY <1>2, <1>4, <1>6 DEF StoreOK, RowsAnswerRequests, Row
<1>9. nullifiers' = [nullifiers EXCEPT ![k] = row] OBVIOUS
<1>10. RowChanges(k, row)
  BY <1>1, <1>2, <1>4, <1>6, <1>7, <1>8, <1>9 DEF RowChanges
<1> QED BY <1>10, StoreRowChanges

\* The server's settlement of an open lease
LEMMA StoreSettles ==
  ASSUME StoreOK, UNCHANGED <<mode, wallet, requests, expired, vault>>, NEW id \in Ids,
         leases[id] # "none", Settled(id)
  PROVE  StoreStep
<1>1. id \in DOMAIN requests /\ Row(id).id = id /\ Row(id).status \in {"reserved", "finalized"}
  BY DEF StoreOK, RowsAnswerRequests
<1> QED BY <1>1, StoreFinishes DEF Settled

\* The clearance of the wallet's state, which no request has used
LEMMA StoreIsCleared ==
  ASSUME StoreOK, UNCHANGED <<mode, wallet, requests, leases, expired, vault>>,
         wallet.coin # NoCoin, wallet.pending = 0, ClearanceReserved
  PROVE  StoreStep /\ wallet.coin \in Coin /\ nullifiers'[wallet.coin].status = "clearance_reserved"
<1> PICK k : k = wallet.coin OBVIOUS
<1> PICK w : w = wallet OBVIOUS
<1>1. k \in Coin /\ nullifiers[k].status \in {"unknown", "clearance_reserved"}
  BY FreeState DEF StoreOK
<1> PICK row : row = [nullifiers[k] EXCEPT !.status = "clearance_reserved"] OBVIOUS
<1>2. nullifiers \in [Coin -> [status : {"unknown", "reserved", "finalized", "clearance_reserved"},
                               id : Ids \cup {0}]]
      /\ leases \in [Ids -> {"none", "active", "finalized"}]
  BY DEF StoreOK, ServerTypes
<1>3. row.status = "clearance_reserved"
      /\ row \in [status : {"unknown", "reserved", "finalized", "clearance_reserved"}, id : Ids \cup {0}]
  BY <1>1, <1>2
<1>4. nullifiers' = [nullifiers EXCEPT ![k] = row] BY DEF ClearanceReserved
<1>5. \A i \in Ids : leases'[i] # "none" => leases[i] # "none" /\ requests[i].coin # k
  BY <1>1 DEF StoreOK, RowsAnswerRequests, Row
<1>6. StoreStep
  <2>1. RowChanges(k, row)
    BY <1>1, <1>2, <1>3, <1>4, <1>5 DEF RowChanges
  <2> QED BY <2>1, StoreRowChanges
<1>7. nullifiers'[k] = row BY <1>1, <1>2, <1>4
<1> QED BY <1>1, <1>3, <1>6, <1>7

\* The vault's record of a note that has been deposited; a close is final.
LEMMA StoreOnChain ==
  ASSUME StoreOK, UNCHANGED <<mode, wallet, requests, serverVars>>, NEW n \in Notes,
         NEW r \in [status : {"active", "pending_withdrawal", "closed"}, coin : Coin \cup {NoCoin}],
         vault[n].status \notin {"none", "closed"}, vault' = [vault EXCEPT ![n] = r]
  PROVE  StoreStep
<1>1. UNCHANGED <<mode, wallet, requests, nullifiers, leases, expired>> BY DEF serverVars
<1>2. vault \in [Notes -> [status : {"none", "active", "pending_withdrawal", "closed"},
                          coin : Coin \cup {NoCoin}]]
  BY DEF StoreOK, ServerTypes
<1>3. /\ vault' \in [Notes -> [status : {"none", "active", "pending_withdrawal", "closed"},
                               coin : Coin \cup {NoCoin}]]
      /\ \A m \in Notes : vault[m].status # "none" => vault'[m].status # "none"
      /\ \A m \in Notes : vault[m].status = "closed" => vault'[m].status = "closed"
  BY <1>2
<1>4. ServerTypes' /\ RowsAnswerRequests'
  BY <1>1, <1>3 DEF StoreOK, ServerTypes, RowsAnswerRequests, Row
<1>5. \A i \in DOMAIN requests : requests[i].coin.note \in Notes
  BY RequestTypes, Coins DEF StoreOK
<1>6. RequestsOK' BY <1>1, <1>3, <1>5 DEF StoreOK, RequestsOK
<1>7. WalletOK(wallet)'
  <2>1. WalletOK(wallet) BY DEF StoreOK
  <2>2. wallet.coin # NoCoin => wallet.coin.note \in Notes BY <2>1, Coins DEF WalletOK, Wallets
  <2> QED BY <1>1, <1>3, <2>1, <2>2 DEF WalletOK
<1>8. Grows BY <1>1, <1>3 DEF Grows
<1>9. Moves /\ JournalKept BY <1>1 DEF Moves, JournalKept
<1> QED BY <1>4, <1>6, <1>7, <1>8, <1>9 DEF StoreStep, StoreOK

-----------------------------------------------------------------------------
(* The plans and the key *)

\* A plan stays bound to its note and, for a mutual close, to its state.
LEMMA BindingKept ==
  ASSUME StoreOK, StoreOK', Grows, Moves, NEW p \in Plan \cup {NoPlan}, Binding(p)
  PROVE  Binding(p)'
<1>1. CASE p = NoPlan BY <1>1 DEF Binding, NoPlan
<1>2. CASE p \in Plan
  <2>1. p.coin \in Coin /\ p.coin.note \in Notes /\ p.mode # "none" BY <1>2, Coins DEF Plan
  <2>2. vault'[p.coin.note].status # "none" BY <2>1 DEF Binding, Grows
  <2>3. ASSUME p.mode = "mutual"
        PROVE  /\ nullifiers'[p.coin].status = "clearance_reserved"
               /\ wallet'.coin.note = p.coin.note => wallet'.coin = p.coin
    <3>1. nullifiers[p.coin].status = "clearance_reserved"
          /\ (wallet.coin.note = p.coin.note => wallet.coin = p.coin)
      BY <2>1, <2>3 DEF Binding
    <3>2. nullifiers'[p.coin].status = "clearance_reserved" BY <2>1, <3>1 DEF Grows
    <3>3. wallet'.coin.note = p.coin.note => wallet'.coin = p.coin
      BY <2>1, <3>1, Coins DEF Moves
    <3> QED BY <3>2, <3>3
  <2> QED BY <2>2, <2>3 DEF Binding
<1> QED BY <1>1, <1>2

\* The plans that a step leaves alone stay in order.
LEMMA PlansKept ==
  ASSUME StoreOK, StoreOK', Grows, Moves, PlansOK, UNCHANGED planVars
  PROVE  PlansOK'
<1> PICK p : p = plan OBVIOUS
<1> PICK q : q = planFile OBVIOUS
<1>1. p \in Plan \cup {NoPlan} /\ q \in Plan \cup {NoPlan} /\ Binding(p) /\ Binding(q)
  BY DEF PlansOK
<1>2. Binding(p)' /\ Binding(q)' BY <1>1, BindingKept
<1>3. plan' = p /\ planFile' = q /\ handed' = handed BY DEF planVars
<1>4. Binding(plan)' /\ Binding(planFile)' BY <1>2, <1>3 DEF Binding
<1> QED BY <1>1, <1>3, <1>4 DEF PlansOK

\* A key that stays in memory stays in order, and so does none.
LEMMA KeyKept ==
  ASSUME StoreOK, StoreOK', Grows, Moves, KeyOK,
         \/ lease' = lease
         \/ lease' = NoLease
         \/ lease # NoLease /\ lease' \in ActiveOpenRouterLease /\ lease'.id = lease.id
  PROVE  KeyOK'
<1>1. CASE lease' = NoLease BY <1>1 DEF KeyOK, KeyIsLeased
<1>2. CASE lease' # NoLease
  <2>1. lease # NoLease /\ lease'.id = lease.id /\ lease' \in ActiveOpenRouterLease
    BY <1>2 DEF KeyOK
  <2> PICK i : i = lease.id OBVIOUS
  <2>2. i \in DOMAIN requests /\ leases[i] # "none"
        /\ (vault[requests[i].coin.note].status = "closed" \/ requests[i].coin.note = wallet.coin.note)
    BY <2>1 DEF KeyOK, KeyIsLeased, NoteClosed
  <2>3. i \in Ids /\ requests[i].coin.note \in Notes BY <2>2, RequestTypes, Coins DEF StoreOK
  <2>4. i \in DOMAIN requests' /\ leases'[i] # "none" /\ requests'[i] = requests[i]
    BY <2>2, <2>3 DEF Grows
  <2>5. vault[requests[i].coin.note].status = "closed" => vault'[requests[i].coin.note].status = "closed"
    BY <2>3 DEF Grows
  <2>6. vault'[requests[i].coin.note].status = "closed" \/ requests[i].coin.note = wallet'.coin.note
    BY <2>2, <2>3, <2>5, Coins DEF Moves
  <2> QED BY <2>1, <2>4, <2>6 DEF KeyOK, KeyIsLeased, NoteClosed
<1> QED BY <1>1, <1>2

-----------------------------------------------------------------------------
(* The calls *)

\* The locks of a call, as HoldsRead, HoldsWrite and HoldsSlot have them.
Reads(c) == c.pc \in ReadPcs \/ (c.pc \in RetirePcs /\ c.then \in {"recover", "prepare"})
Writes(c) == c.pc \in WritePcs \/ (c.pc \in RetirePcs /\ c.then \in {"retry", "fail", "settled"})
Slots(c) == Reads(c) /\ c.pc # "infer"

\* The locks in terms of the calls
LEMMA LocksOfCalls ==
  /\ \A t \in Tasks : (HoldsRead(t) <=> Reads(task[t])) /\ (HoldsWrite(t) <=> Writes(task[t]))
                      /\ (HoldsSlot(t) <=> Slots(task[t]))
  /\ LocksExclude <=>
       \A t, u \in Tasks :
         /\ Slots(task[t]) /\ Slots(task[u]) => t = u
         /\ Writes(task[t]) /\ (Writes(task[u]) \/ Reads(task[u])) => t = u
<1>1. \A t \in Tasks : (HoldsRead(t) <=> Reads(task[t])) /\ (HoldsWrite(t) <=> Writes(task[t]))
  BY DEF HoldsRead, HoldsWrite, Reads, Writes
<1>2. \A t \in Tasks : HoldsSlot(t) <=> Slots(task[t])
  BY <1>1 DEF HoldsSlot, Slots
<1> QED BY <1>1, <1>2 DEF LocksExclude

\* A call that issues a lease holds the slot's lock.
LEMMA IssuersHoldSlot ==
  ASSUME NEW c
  PROVE  /\ Issuing(c) => Slots(c)
         /\ c.pc = "verify" => Slots(c)
         /\ c.pc = "infer" => Reads(c)
BY DEF Issuing, Slots, Reads, ReadPcs, RetirePcs

\* What the calls other than t rely on of the key and of the journal
KeyMoves(t) ==
  /\ \A u \in Tasks \ {t} :
       /\ Slots(task[u]) => lease' = lease
       /\ task[u].pc = "infer" /\ task[u].id = lease.id
            => lease'.id = lease.id \/ lease.id \in expired \/ NoteClosed(lease.id)
  /\ \/ lease' = NoLease
     \/ lease'.id = lease.id /\ lease'.session = lease.session
     \/ lease'.id \in Ids /\ leases[lease'.id] = "none"

JournalMoves(t) == \A u \in Tasks \ {t} : task[u].pc \in {"post", "find"} => JournalKept

\* Call t may take the locks of c, as far as the others are concerned.
MayHold(t, c) ==
  /\ Slots(c) => Slots(task[t]) \/ \A u \in Tasks \ {t} : ~Slots(task[u])
  /\ Reads(c) => Reads(task[t]) \/ \A u \in Tasks \ {t} : ~Writes(task[u])
  /\ Writes(c) => Writes(task[t]) \/ \A u \in Tasks \ {t} : ~Writes(task[u]) /\ ~Reads(task[u])

\* What a call has checked stays true while other calls and the server run.
LEMMA OtherCallKept ==
  ASSUME StoreOK, StoreOK', Grows, Moves, NEW c \in Task, CallIsFormed(c), CallIsCovered(c),
         c.pc \in {"post", "find"} => JournalKept,
         Slots(c) => lease' = lease,
         c.pc = "infer" /\ c.id = lease.id
           => lease'.id = lease.id \/ lease.id \in expired \/ NoteClosed(lease.id)
  PROVE  CallIsFormed(c)' /\ CallIsCovered(c)'
<1>1. \A i \in DOMAIN requests :
        /\ i \in DOMAIN requests' /\ requests'[i] = requests[i] /\ i \in Ids
        /\ requests[i].coin \in Coin /\ requests[i].coin.note \in Notes
        /\ NoteClosed(i) => NoteClosed(i)'
  <2> SUFFICES ASSUME NEW i \in DOMAIN requests
               PROVE  /\ i \in DOMAIN requests' /\ requests'[i] = requests[i] /\ i \in Ids
                      /\ requests[i].coin \in Coin /\ requests[i].coin.note \in Notes
                      /\ NoteClosed(i) => NoteClosed(i)'
    OBVIOUS
  <2>1. i \in DOMAIN requests' /\ requests'[i] = requests[i] BY DEF Grows
  <2>2. i \in Ids /\ requests[i].coin \in Coin /\ requests[i].coin.note \in Notes
    BY RequestTypes, Coins DEF StoreOK
  <2> QED BY <2>1, <2>2 DEF Grows, NoteClosed
<1>2. CallIsFormed(c)' BY <1>1 DEF CallIsFormed
<1>3. c.pc \in {"post", "find"} /\ nullifiers'[requests'[c.id].coin].status \in {"unknown", "clearance_reserved"}
        => wallet'.pending = c.id \/ wallet'.coin = NoCoin
  <2> SUFFICES ASSUME c.pc \in {"post", "find"},
                      nullifiers'[requests'[c.id].coin].status \in {"unknown", "clearance_reserved"}
               PROVE  wallet'.pending = c.id \/ wallet'.coin = NoCoin
    OBVIOUS
  <2>1. c.id \in DOMAIN requests BY DEF CallIsFormed
  <2>2. nullifiers'[requests[c.id].coin].status \in {"unknown", "clearance_reserved"} BY <2>1, <1>1
  <2>3. nullifiers[requests[c.id].coin].status \in {"unknown", "clearance_reserved"}
    BY <2>1, <2>2, <1>1 DEF Grows
  <2>4. wallet.pending = c.id \/ wallet.coin = NoCoin BY <2>3 DEF CallIsCovered, Row
  <2> QED BY <2>1, <2>2, <2>4 DEF JournalKept
<1>4. c.pc = "post" => NoteClosed(c.id)' \/ requests'[c.id].coin.note = wallet'.coin.note
  <2> SUFFICES ASSUME c.pc = "post" PROVE NoteClosed(c.id)' \/ requests'[c.id].coin.note = wallet'.coin.note
    OBVIOUS
  <2>1. c.id \in DOMAIN requests BY DEF CallIsFormed
  <2>2. NoteClosed(c.id) \/ requests[c.id].coin.note = wallet.coin.note BY DEF CallIsCovered
  <2>3. CASE NoteClosed(c.id) BY <2>1, <2>3, <1>1
  <2>4. CASE requests[c.id].coin.note = wallet.coin.note
    <3>1. wallet.coin # NoCoin BY <2>1, <2>4, <1>1, Coins
    <3>2. wallet'.coin = NoCoin => NoteClosed(c.id)
      BY <3>1, <2>4, Coins DEF Moves, NoteClosed
    <3>3. wallet'.coin # NoCoin => wallet'.coin.note = wallet.coin.note BY DEF Moves
    <3> QED BY <3>2, <3>3, <2>1, <2>4, <1>1
  <2> QED BY <2>2, <2>3, <2>4
<1>5. c.pc = "verify" => lease' # NoLease /\ lease'.session = c.session
  BY IssuersHoldSlot DEF CallIsCovered
<1>6. Issuing(c) => lease' = NoLease BY IssuersHoldSlot DEF CallIsCovered
<1>7. c.pc = "infer" =>
        leases'[c.id] # "none" /\ (lease'.id = c.id \/ c.id \in expired' \/ NoteClosed(c.id)')
  <2> SUFFICES ASSUME c.pc = "infer"
               PROVE  leases'[c.id] # "none" /\ (lease'.id = c.id \/ c.id \in expired' \/ NoteClosed(c.id)')
    OBVIOUS
  <2>1. c.id \in DOMAIN requests BY DEF CallIsFormed
  <2>2. leases[c.id] # "none" /\ (lease.id = c.id \/ c.id \in expired \/ NoteClosed(c.id))
    BY DEF CallIsCovered
  <2>3. leases'[c.id] # "none" BY <2>1, <2>2, <1>1 DEF Grows
  <2>4. lease'.id = c.id \/ c.id \in expired \/ NoteClosed(c.id) BY <2>2
  <2> QED BY <2>1, <2>3, <2>4, <1>1 DEF Grows
<1>8. c.pc = "persist" => Binding(c.plan)'
  <2> SUFFICES ASSUME c.pc = "persist" PROVE Binding(c.plan)'
    OBVIOUS
  <2> PICK p : p = c.plan OBVIOUS
  <2>1. p \in Plan /\ Binding(p) BY DEF CallIsFormed, CallIsCovered
  <2>2. Binding(p)' BY <2>1, BindingKept
  <2> QED BY <2>2
<1>9. c.pc = "chain" => wallet'.coin = NoCoin \/ wallet'.coin.note = c.note
  BY Coins DEF CallIsCovered, Moves
<1>10. c.pc \in {"closed", "closed_lease", "reset", "forget", "forget_lease"} =>
         wallet'.coin = NoCoin \/ vault'[wallet'.coin.note].status = "closed"
  <2>1. wallet.coin # NoCoin => wallet.coin.note \in Notes
    BY Coins DEF StoreOK, WalletOK, Wallets
  <2>2. wallet.coin # NoCoin /\ vault[wallet.coin.note].status = "closed"
          => vault'[wallet.coin.note].status = "closed"
    BY <2>1 DEF Grows
  <2> QED BY <2>2, Coins DEF CallIsCovered, Moves
<1> QED BY <1>2, <1>3, <1>4, <1>5, <1>6, <1>7, <1>8, <1>9, <1>10 DEF CallIsCovered, Row

\* A step of call t, which becomes c, keeps the calls in order.
LEMMA CallStep ==
  ASSUME StoreOK, KeyOK, CallsOK, StoreOK', Grows, Moves, NEW t \in Tasks, NEW c \in Task,
         task' = [task EXCEPT ![t] = c],
         JournalMoves(t), KeyMoves(t), MayHold(t, c),
         CallIsFormed(c)', CallIsCovered(c)',
         c.pc = "infer" =>
           /\ c.id = lease.id /\ c.session = lease.session
           /\ lease'.id = lease.id /\ lease'.session = lease.session
  PROVE  CallsOK'
<1>1. task \in [Tasks -> Task] BY DEF CallsOK
<1>2. task' \in [Tasks -> Task] /\ task'[t] = c /\ \A u \in Tasks \ {t} : task'[u] = task[u]
  BY <1>1
<1>3. \A u \in Tasks : CallIsFormed(task[u]) /\ CallIsCovered(task[u]) BY DEF CallsOK
<1>4. \A u \in Tasks \ {t} : CallIsFormed(task[u])' /\ CallIsCovered(task[u])'
  <2> SUFFICES ASSUME NEW u \in Tasks \ {t} PROVE CallIsFormed(task[u])' /\ CallIsCovered(task[u])'
    OBVIOUS
  <2> PICK d : d = task[u] OBVIOUS
  <2>1. d \in Task /\ CallIsFormed(d) /\ CallIsCovered(d) BY <1>1, <1>3
  <2>2. d.pc \in {"post", "find"} => JournalKept BY DEF JournalMoves
  <2>3. /\ Slots(d) => lease' = lease
        /\ d.pc = "infer" /\ d.id = lease.id
             => lease'.id = lease.id \/ lease.id \in expired \/ NoteClosed(lease.id)
    BY DEF KeyMoves
  <2>4. CallIsFormed(d)' /\ CallIsCovered(d)' BY <2>1, <2>2, <2>3, OtherCallKept
  <2>5. task'[u] = d BY <1>2
  <2> QED BY <2>4, <2>5 DEF CallIsFormed, CallIsCovered, Issuing, Binding
<1>5. CallIsFormed(task[t])' /\ CallIsCovered(task[t])'
  BY <1>2 DEF CallIsFormed, CallIsCovered, Issuing, Binding
<1>6. \A u \in Tasks : CallIsFormed(task[u])' /\ CallIsCovered(task[u])'
  BY <1>4, <1>5
<1>7. LocksExclude'
  <2>1. \A u, v \in Tasks :
          /\ Slots(task[u]) /\ Slots(task[v]) => u = v
          /\ Writes(task[u]) /\ (Writes(task[v]) \/ Reads(task[v])) => u = v
    BY LocksOfCalls DEF CallsOK
  <2>2. \A u, v \in Tasks :
          /\ Slots(task'[u]) /\ Slots(task'[v]) => u = v
          /\ Writes(task'[u]) /\ (Writes(task'[v]) \/ Reads(task'[v])) => u = v
    BY <1>2, <2>1 DEF MayHold
  <2> QED BY <2>2 DEF LocksExclude, HoldsSlot, HoldsRead, HoldsWrite, Slots, Reads, Writes
<1>8. KeyServesOneSession'
  <2>1. \A u, v \in Tasks :
          /\ task[u].pc = "infer" /\ task[v].pc = "infer" /\ task[u].id = task[v].id
               => task[u].session = task[v].session
          /\ task[u].pc = "infer" /\ lease.id = task[u].id => lease.session = task[u].session
    BY DEF CallsOK, KeyServesOneSession, At
  <2>2. \A u \in Tasks \ {t} :
          task[u].pc = "infer" /\ lease'.id = task[u].id => lease'.session = task[u].session
    <3> SUFFICES ASSUME NEW u \in Tasks \ {t}, task[u].pc = "infer", lease'.id = task[u].id
                 PROVE  lease'.session = task[u].session
      OBVIOUS
    <3>1. task[u].id \in DOMAIN requests /\ leases[task[u].id] # "none"
      BY <1>3 DEF CallIsFormed, CallIsCovered
    <3>2. task[u].id # 0 BY <3>1, RequestTypes DEF StoreOK
    <3>3. lease'.id = lease.id /\ lease'.session = lease.session
      BY <3>1, <3>2 DEF KeyMoves, NoLease
    <3> QED BY <3>3, <2>1
  <2>3. \A u \in Tasks \ {t} : c.pc = "infer" /\ task[u].pc = "infer" /\ task[u].id = c.id
          => task[u].session = c.session
    BY <2>1
  <2>4. \A u, v \in Tasks :
          /\ task'[u].pc = "infer" /\ task'[v].pc = "infer" /\ task'[u].id = task'[v].id
               => task'[u].session = task'[v].session
          /\ task'[u].pc = "infer" /\ lease'.id = task'[u].id => lease'.session = task'[u].session
    <3> SUFFICES ASSUME NEW u \in Tasks, NEW v \in Tasks
                 PROVE  /\ task'[u].pc = "infer" /\ task'[v].pc = "infer" /\ task'[u].id = task'[v].id
                             => task'[u].session = task'[v].session
                        /\ task'[u].pc = "infer" /\ lease'.id = task'[u].id
                             => lease'.session = task'[u].session
      OBVIOUS
    <3>1. CASE u = t BY <3>1, <1>2, <2>1, <2>3
    <3>2. CASE u # t BY <3>2, <1>2, <2>1, <2>2, <2>3
    <3> QED BY <3>1, <3>2
  <2> QED BY <2>4 DEF KeyServesOneSession, At
<1> QED BY <1>2, <1>6, <1>7, <1>8 DEF CallsOK

\* A step of the server, the vault or the ticker leaves the calls in order.
LEMMA CallsKept ==
  ASSUME StoreOK, KeyOK, CallsOK, StoreStep, UNCHANGED task,
         \/ lease' = lease
         \/ lease' = NoLease /\ \A u \in Tasks : ~Reads(task[u])
  PROVE  CallsOK'
<1>1. task \in [Tasks -> Task] /\ \A u \in Tasks : CallIsFormed(task[u]) /\ CallIsCovered(task[u])
  BY DEF CallsOK
<1>2. \A u \in Tasks : CallIsFormed(task[u])' /\ CallIsCovered(task[u])'
  <2> SUFFICES ASSUME NEW u \in Tasks PROVE CallIsFormed(task[u])' /\ CallIsCovered(task[u])'
    OBVIOUS
  <2> PICK d : d = task[u] OBVIOUS
  <2>1. d \in Task /\ CallIsFormed(d) /\ CallIsCovered(d) BY <1>1
  <2>2. Slots(d) => lease' = lease BY DEF Slots
  <2>3. d.pc = "infer" => lease' = lease BY IssuersHoldSlot
  <2>4. CallIsFormed(d)' /\ CallIsCovered(d)' BY <2>1, <2>2, <2>3, OtherCallKept DEF StoreStep
  <2>5. task'[u] = d OBVIOUS
  <2> QED BY <2>4, <2>5 DEF CallIsFormed, CallIsCovered, Issuing, Binding
<1>3. LocksExclude'
  BY DEF CallsOK, LocksExclude, HoldsSlot, HoldsRead, HoldsWrite
<1>4. KeyServesOneSession'
  <2>1. \A u \in Tasks : task[u].pc = "infer" => lease' = lease BY IssuersHoldSlot
  <2> QED BY <2>1 DEF CallsOK, KeyServesOneSession, At
<1> QED BY <1>1, <1>2, <1>3, <1>4 DEF CallsOK

-----------------------------------------------------------------------------
(* Steps of a call, by what they change *)

\* ClientInv after a step is the conjunction of its parts.
LEMMA PartsNext == (StoreOK /\ PlansOK /\ KeyOK /\ CallsOK /\ FaultsOK)' => ClientInv'
BY Parts, PTL

\* A fault is counted up to its bound.
LEMMA FaultsKept ==
  ASSUME FaultsOK, NoFault \/ Fault
  PROVE  FaultsOK'
<1>1. CASE NoFault BY <1>1 DEF FaultsOK, NoFault
<1>2. CASE Fault
  <2>1. faults.errors + 1 \in 0..MaxFaults BY <1>2, ClientAssumption DEF Fault, FaultsOK
  <2> QED BY <1>2, <2>1 DEF Fault, FaultsOK
<1> QED BY <1>1, <1>2

\* A step of call t that leaves the key and the plans alone.
LEMMA QuietStep ==
  ASSUME ClientInv, StoreStep, UNCHANGED <<lease, planVars>>, NoFault \/ Fault,
         NEW t \in Tasks, NEW c \in Task, task' = [task EXCEPT ![t] = c], c.pc # "infer",
         MayHold(t, c), CallIsFormed(c)', CallIsCovered(c)'
  PROVE  ClientInv'
<1>1. StoreOK /\ PlansOK /\ KeyOK /\ CallsOK /\ FaultsOK BY Parts
<1>2. StoreOK' /\ Grows /\ Moves /\ JournalKept BY DEF StoreStep
<1>3. lease' = lease /\ UNCHANGED planVars OBVIOUS
<1>4. PlansOK' BY <1>1, <1>2, <1>3, PlansKept
<1>5. KeyOK' BY <1>1, <1>2, <1>3, KeyKept
<1>6. KeyMoves(t) /\ JournalMoves(t) BY <1>2, <1>3 DEF KeyMoves, JournalMoves
<1>7. CallsOK' BY <1>1, <1>2, <1>6, CallStep
<1>8. FaultsOK' BY <1>1, FaultsKept
<1> QED BY <1>2, <1>4, <1>5, <1>7, <1>8, PartsNext

\* A finished call holds nothing and relies on nothing.
LEMMA IdleCall ==
  /\ Idle \in Task /\ Idle.pc = "idle"
  /\ CallIsFormed(Idle) /\ CallIsCovered(Idle) /\ CallIsFormed(Idle)' /\ CallIsCovered(Idle)'
  /\ ~Reads(Idle) /\ ~Writes(Idle) /\ ~Slots(Idle)
  /\ \A t \in Tasks : MayHold(t, Idle)
<1>1. Idle.pc = "idle" /\ Idle.then = "none" BY DEF Idle
<1>2. Idle \in Task
  <2>1. "idle" \in OtherPcs /\ {} \in SUBSET {"stale_root", "lost_key", "replacement"} BY DEF OtherPcs
  <2>2. NoPlan \in [mode : {"none", "mutual", "escape"}, destination : Destinations \cup {NoDestination},
                   coin : Coin \cup {NoCoin}]
    BY DEF NoPlan
  <2> QED BY <2>1, <2>2 DEF Idle, Task
<1>3. CallIsFormed(Idle) /\ CallIsCovered(Idle)
  BY <1>1 DEF CallIsFormed, CallIsCovered, Issuing, RetirePcs, ReadPcs, PlanPcs
<1>4. CallIsFormed(Idle)' /\ CallIsCovered(Idle)'
  BY <1>1 DEF CallIsFormed, CallIsCovered, Issuing, RetirePcs, ReadPcs, PlanPcs
<1>5. ~Reads(Idle) /\ ~Writes(Idle) /\ ~Slots(Idle)
  BY <1>1 DEF Reads, Writes, Slots, ReadPcs, WritePcs, RetirePcs
<1> QED BY <1>1, <1>2, <1>3, <1>4, <1>5 DEF MayHold

\* A call that returns, leaving the key and the plans alone.
LEMMA ReturnStep ==
  ASSUME ClientInv, StoreStep, UNCHANGED <<lease, planVars>>, NoFault \/ Fault,
         NEW t \in Tasks, Return(t)
  PROVE  ClientInv'
<1>1. task' = [task EXCEPT ![t] = Idle] BY DEF Return
<1> QED BY <1>1, IdleCall, QuietStep

\* A step of the environment that leaves the key and the calls alone.
LEMMA QuietEnvironment ==
  ASSUME ClientInv, StoreStep, UNCHANGED <<lease, task, planVars, faults>>
  PROVE  ClientInv'
<1>1. StoreOK /\ PlansOK /\ KeyOK /\ CallsOK /\ FaultsOK BY Parts
<1>2. StoreOK' /\ Grows /\ Moves BY DEF StoreStep
<1>3. lease' = lease /\ UNCHANGED planVars /\ UNCHANGED task OBVIOUS
<1>4. PlansOK' BY <1>1, <1>2, <1>3, PlansKept
<1>5. KeyOK' BY <1>1, <1>2, <1>3, KeyKept
<1>6. CallsOK' BY <1>1, <1>3, CallsKept
<1>7. FaultsOK' BY <1>1 DEF FaultsOK
<1> QED BY <1>2, <1>4, <1>5, <1>6, <1>7, PartsNext

-----------------------------------------------------------------------------
(* The record of a call after its steps *)

Pcs == RetirePcs \cup ReadPcs \cup WritePcs \cup PlanPcs \cup OtherPcs
Thens == {"none", "recover", "prepare", "retry", "fail", "settled"}
Reasons == {"stale_root", "lost_key", "replacement"}

\* The fields of a call.
LEMMA CallTypes ==
  ASSUME CallsOK, NEW t \in Tasks
  PROVE  /\ task[t] \in Task /\ task[t].pc \in Pcs /\ task[t].session \in Sessions \cup {NoSession}
         /\ task[t].id \in Ids \cup {0} /\ task[t].then \in Thens /\ task[t].used \in SUBSET Reasons
         /\ CallIsFormed(task[t]) /\ CallIsCovered(task[t])
<1>1. task[t] \in Task /\ CallIsFormed(task[t]) /\ CallIsCovered(task[t]) BY DEF CallsOK
<1> QED BY <1>1 DEF Task, Pcs, Thens, Reasons

\* Goto changes the control point only.
LEMMA GotoBecomes ==
  ASSUME CallsOK, NEW t \in Tasks, NEW p \in Pcs, Goto(t, p)
  PROVE  \E c \in Task :
           /\ task' = [task EXCEPT ![t] = c]
           /\ c.pc = p /\ c.id = task[t].id /\ c.then = task[t].then /\ c.used = task[t].used
           /\ c.session = task[t].session /\ c.plan = task[t].plan /\ c.note = task[t].note
<1>1. task[t] \in Task /\ task \in [Tasks -> Task] BY DEF CallsOK
<1> DEFINE c == [task[t] EXCEPT !.pc = p]
<1>2. c \in Task BY <1>1 DEF Task, Pcs
<1>3. /\ c.pc = p /\ c.id = task[t].id /\ c.then = task[t].then /\ c.used = task[t].used
      /\ c.session = task[t].session /\ c.plan = task[t].plan /\ c.note = task[t].note
  BY <1>1 DEF Task
<1>4. task' = [task EXCEPT ![t] = c] BY DEF Goto
<1> HIDE DEF c
<1> QED BY <1>2, <1>3, <1>4

\* Retire begins the retirement of a request.
LEMMA RetireBecomes ==
  ASSUME CallsOK, NEW t \in Tasks, NEW i \in Ids, NEW h \in Thens, Retire(t, i, h)
  PROVE  \E c \in Task :
           /\ task' = [task EXCEPT ![t] = c]
           /\ c.pc = "retire_prepare" /\ c.id = i /\ c.then = h /\ c.session = task[t].session
<1>1. task[t] \in Task /\ task \in [Tasks -> Task] BY DEF CallsOK
<1> DEFINE c == [task[t] EXCEPT !.pc = "retire_prepare", !.id = i, !.then = h]
<1>2. c \in Task
  <2>1. "retire_prepare" \in RetirePcs BY DEF RetirePcs
  <2> QED BY <1>1, <2>1 DEF Task, Thens
<1>3. c.pc = "retire_prepare" /\ c.id = i /\ c.then = h /\ c.session = task[t].session
  BY <1>1 DEF Task
<1>4. task' = [task EXCEPT ![t] = c] BY DEF Retire
<1> HIDE DEF c
<1> QED BY <1>2, <1>3, <1>4

\* Again starts the next turn of the issuing loop.
LEMMA AgainBecomes ==
  ASSUME CallsOK, NEW t \in Tasks, NEW r \in Reasons, Again(t, r)
  PROVE  \E c \in Task :
           task' = [task EXCEPT ![t] = c] /\ c.pc = "prepare" /\ c.then = "none"
           /\ c.session = task[t].session
<1>1. task[t] \in Task /\ task \in [Tasks -> Task] BY DEF CallsOK
<1> DEFINE c == [task[t] EXCEPT !.pc = "prepare", !.id = 0, !.then = "none", !.used = @ \cup {r}]
<1>2. c \in Task
  <2>1. "prepare" \in ReadPcs BY DEF ReadPcs
  <2>2. task[t].used \cup {r} \in SUBSET Reasons BY CallTypes
  <2> QED BY <1>1, <2>1, <2>2 DEF Task, Reasons
<1>3. c.pc = "prepare" /\ c.then = "none" /\ c.session = task[t].session
  BY <1>1 DEF Task
<1>4. task' = [task EXCEPT ![t] = c] BY DEF Again
<1> HIDE DEF c
<1> QED BY <1>2, <1>3, <1>4

-----------------------------------------------------------------------------
(* The arrival of a call *)

\* A call that passes the guard has taken nothing yet.
LEMMA execute_request_in_session_Inv ==
  ASSUME ClientInv, NEW t \in Tasks, NEW s \in Sessions, execute_request_in_session(t, s)
  PROVE  ClientInv'
<1>1. UNCHANGED <<mode, wallet, requests, lease, vault, faults, planVars, serverVars>>
  BY DEF execute_request_in_session
<1>2. StoreStep BY <1>1, Parts, StoreIdle
<1> PICK p : p = IF mode = "proxy" THEN "proxy" ELSE "guarded" OBVIOUS
<1> DEFINE c == [Idle EXCEPT !.pc = p, !.session = s]
<1>3. p \in {"proxy", "guarded"} OBVIOUS
<1>4. c \in Task /\ c.pc = p /\ c.session = s /\ c.then = "none"
  <2>1. p \in OtherPcs BY <1>3 DEF OtherPcs
  <2>2. c.pc = p /\ c.session = s /\ c.then = "none" BY DEF Idle
  <2> QED BY <2>1, <2>2, IdleCall DEF Task, Idle
<1>5. task' = [task EXCEPT ![t] = c] BY DEF execute_request_in_session
<1> HIDE DEF c
<1>6. CallIsFormed(c)' /\ CallIsCovered(c)'
  BY <1>3, <1>4 DEF CallIsFormed, CallIsCovered, Issuing, RetirePcs, ReadPcs, PlanPcs
<1>7. MayHold(t, c)
  BY <1>3, <1>4 DEF MayHold, Slots, Reads, Writes, ReadPcs, WritePcs, RetirePcs
<1> QED BY <1>1, <1>2, <1>3, <1>4, <1>5, <1>6, <1>7, QuietStep DEF NoFault

\* The demo page's request has taken nothing yet.
LEMMA request_submit_Inv ==
  ASSUME ClientInv, NEW t \in Tasks, request_submit(t)
  PROVE  ClientInv'
<1>1. UNCHANGED <<mode, wallet, requests, lease, vault, faults, planVars, serverVars>>
  BY DEF request_submit
<1>2. StoreStep BY <1>1, Parts, StoreIdle
<1> DEFINE c == [Idle EXCEPT !.pc = "proxy"]
<1>3. c \in Task /\ c.pc = "proxy"
  <2>1. "proxy" \in OtherPcs BY DEF OtherPcs
  <2> QED BY <2>1, IdleCall DEF Task, Idle
<1>4. task' = [task EXCEPT ![t] = c] BY DEF request_submit
<1> HIDE DEF c
<1>5. CallIsFormed(c)' /\ CallIsCovered(c)'
  BY <1>3 DEF CallIsFormed, CallIsCovered, Issuing, RetirePcs, ReadPcs, PlanPcs
<1>6. MayHold(t, c)
  BY <1>3 DEF MayHold, Slots, Reads, Writes, ReadPcs, WritePcs, RetirePcs
<1> QED BY <1>1, <1>2, <1>3, <1>4, <1>5, <1>6, QuietStep DEF NoFault

\* /wallet/recover installs an answered request under the wallet lock only.
LEMMA recover_Inv ==
  ASSUME ClientInv, NEW t \in Tasks, recover(t)
  PROVE  ClientInv'
<1>1. UNCHANGED <<mode, requests, lease, task, vault, faults, planVars, serverVars>>
      /\ wallet' = Recovered
  BY DEF recover
<1>2. StoreStep BY <1>1, Parts, StoreRecovers
<1> QED BY <1>1, <1>2, QuietEnvironment

\* confirm_withdrawal asks the vault about the wallet's own note.
LEMMA confirm_withdrawal_Inv ==
  ASSUME ClientInv, NEW t \in Tasks, confirm_withdrawal(t)
  PROVE  ClientInv'
<1>1. UNCHANGED <<mode, wallet, requests, lease, vault, faults, planVars, serverVars>>
      /\ wallet.coin # NoCoin
  BY DEF confirm_withdrawal
<1>2. StoreStep BY <1>1, Parts, StoreIdle
<1> PICK n : n = wallet.coin.note OBVIOUS
<1> DEFINE c == [Idle EXCEPT !.pc = "chain", !.note = n]
<1>3. c \in Task /\ c.pc = "chain" /\ c.note = n
  <2>1. "chain" \in OtherPcs BY DEF OtherPcs
  <2>2. n \in Notes BY <1>1, Parts, Coins DEF StoreOK, WalletOK, Wallets
  <2>3. c.pc = "chain" /\ c.note = n BY DEF Idle
  <2> QED BY <2>1, <2>2, <2>3, IdleCall DEF Task, Idle
<1>4. task' = [task EXCEPT ![t] = c] BY DEF confirm_withdrawal
<1> HIDE DEF c
<1>5. CallIsFormed(c)' /\ CallIsCovered(c)'
  BY <1>1, <1>3 DEF CallIsFormed, CallIsCovered, Issuing, RetirePcs, ReadPcs, PlanPcs
<1>6. MayHold(t, c)
  BY <1>3 DEF MayHold, Slots, Reads, Writes, ReadPcs, WritePcs, RetirePcs
<1> QED BY <1>1, <1>2, <1>3, <1>4, <1>5, <1>6, QuietStep DEF NoFault

\* /wallet/reset goes on only for a closed note.
LEMMA wallet_reset_Inv ==
  ASSUME ClientInv, NEW t \in Tasks, wallet_reset(t)
  PROVE  ClientInv'
<1>1. UNCHANGED <<mode, wallet, requests, lease, vault, faults, planVars, serverVars>>
      /\ vault[wallet.coin.note].status = "closed" /\ Goto(t, "reset")
  BY DEF wallet_reset
<1>2. StoreStep /\ CallsOK BY <1>1, Parts, StoreIdle
<1>3. "reset" \in Pcs BY DEF Pcs, OtherPcs
<1>4. PICK c \in Task : task' = [task EXCEPT ![t] = c] /\ c.pc = "reset"
  BY <1>1, <1>2, <1>3, GotoBecomes
<1>5. CallIsFormed(c)' /\ CallIsCovered(c)'
  BY <1>1, <1>4 DEF CallIsFormed, CallIsCovered, Issuing, RetirePcs, ReadPcs, PlanPcs
<1>6. MayHold(t, c)
  BY <1>4 DEF MayHold, Slots, Reads, Writes, ReadPcs, WritePcs, RetirePcs
<1> QED BY <1>1, <1>2, <1>4, <1>5, <1>6, QuietStep DEF NoFault

\* execute_request_demo keeps what it has sent in the journal.
LEMMA execute_request_demo_Inv ==
  ASSUME ClientInv, NEW t \in Tasks, execute_request_demo(t)
  PROVE  ClientInv'
<1>1. UNCHANGED <<mode, lease, leases, expired, vault, planVars>> /\ Return(t)
  BY DEF execute_request_demo
<1>2. CASE ProxyOutcome(Recovered)
  <2>1. StoreStep BY <1>1, <1>2, Parts, StoreServesProxy
  <2>2. NoFault \/ Fault BY <1>2 DEF ProxyOutcome
  <2> QED BY <1>1, <2>1, <2>2, ReturnStep
<1>3. CASE Fault /\ UNCHANGED <<wallet, requests, nullifiers>>
  <2>1. StoreStep BY <1>1, <1>3, Parts, StoreIdle DEF serverVars
  <2> QED BY <1>1, <1>3, <2>1, ReturnStep
<1> QED BY <1>2, <1>3 DEF execute_request_demo

-----------------------------------------------------------------------------
(* Issuing and retiring a lease *)

\* GoOnWith goes on with the request i at p, or returns.
LEMMA GoOnWithBecomes ==
  ASSUME CallsOK, NEW t \in Tasks, NEW p \in Pcs, NEW i \in Ids, GoOnWith(t, i, p)
  PROVE  \/ Return(t)
         \/ \E c \in Task :
              /\ task' = [task EXCEPT ![t] = c]
              /\ c.pc = p /\ c.id = i /\ c.then = task[t].then /\ c.session = task[t].session
<1> SUFFICES ASSUME ~Return(t)
             PROVE  \E c \in Task :
                      /\ task' = [task EXCEPT ![t] = c]
                      /\ c.pc = p /\ c.id = i /\ c.then = task[t].then /\ c.session = task[t].session
  OBVIOUS
<1>1. task[t] \in Task /\ task \in [Tasks -> Task] BY DEF CallsOK
<1> DEFINE c == [task[t] EXCEPT !.pc = p, !.id = i]
<1>2. c \in Task BY <1>1 DEF Task, Pcs
<1>3. c.pc = p /\ c.id = i /\ c.then = task[t].then /\ c.session = task[t].session
  BY <1>1 DEF Task
<1>4. task' = [task EXCEPT ![t] = c] BY DEF GoOnWith
<1> HIDE DEF c
<1> QED BY <1>2, <1>3, <1>4

\* prepare_direct_lease_request: the call goes on with the request in the journal, or returns.
LEMMA Prepares ==
  ASSUME ClientInv, NEW t \in Tasks, NEW p \in Pcs, prepare_direct_lease_request(t, p),
         UNCHANGED <<mode, vault, serverVars>>
  PROVE  /\ StoreStep /\ (NoFault \/ Fault)
         /\ \/ Return(t)
            \/ \E c \in Task :
                 /\ task' = [task EXCEPT ![t] = c]
                 /\ c.pc = p /\ c.id = wallet'.pending /\ c.then = task[t].then
                 /\ c.session = task[t].session
                 /\ c.id \in DOMAIN requests' /\ requests'[c.id].coin = wallet'.coin
<1>1. StoreOK /\ CallsOK /\ WalletOK(wallet) /\ wallet \in Wallets BY Parts DEF StoreOK, WalletOK
<1>2. CASE UNCHANGED <<wallet, requests>> /\ Return(t) /\ (NoFault \/ Fault)
  BY <1>1, <1>2, StoreIdle
<1>3. CASE /\ wallet.pending # 0 /\ GoOnWith(t, wallet.pending, p)
           /\ NoFault /\ UNCHANGED <<wallet, requests>>
  <2> PICK i : i = wallet.pending OBVIOUS
  <2>1. i \in Ids /\ i \in DOMAIN requests /\ requests[i].coin = wallet.coin
    BY <1>1, <1>3 DEF WalletOK, Wallets
  <2>2. StoreStep BY <1>1, <1>3, StoreIdle
  <2> QED BY <1>1, <1>3, <2>1, <2>2, GoOnWithBecomes
<1>4. CASE /\ CanProve(wallet) /\ Journal(wallet, "lease") /\ wallet' = [wallet EXCEPT !.pending = NewId]
           /\ GoOnWith(t, NewId, p) /\ NoFault
  <2>1. StoreStep BY <1>1, <1>4, StoreJournals
  <2> PICK i : i = NewId OBVIOUS
  <2>2. i \in Ids /\ i \in DOMAIN requests' /\ requests'[i].coin = wallet.coin
    <3> PICK w : w = wallet OBVIOUS
    <3>1. WalletOK(w) /\ CanProve(w) /\ Journal(w, "lease") /\ "lease" \in {"lease", "proxy"}
      BY <1>1, <1>4
    <3> QED BY <1>1, <3>1, JournalAppends
  <2>3. wallet'.pending = i /\ wallet'.coin = wallet.coin BY <1>1, <1>4 DEF Wallets
  <2> QED BY <1>1, <1>4, <2>1, <2>2, <2>3, GoOnWithBecomes
<1> QED BY <1>2, <1>3, <1>4 DEF prepare_direct_lease_request

\* RecoverBeforeIssue installs an answered request before the next lease is asked for.
LEMMA RecoverBeforeIssue_Inv ==
  ASSUME ClientInv, NEW t \in Tasks, RecoverBeforeIssue(t)
  PROVE  ClientInv'
<1>1. UNCHANGED <<mode, requests, lease, vault, planVars, serverVars>> /\ task[t].pc = "recover"
  BY DEF RecoverBeforeIssue, At
<1>2. StoreOK /\ CallsOK BY Parts
<1>3. CASE wallet' = Recovered /\ Goto(t, "prepare") /\ NoFault
  <2>1. StoreStep BY <1>1, <1>2, <1>3, StoreRecovers
  <2>2. "prepare" \in Pcs BY DEF Pcs, ReadPcs
  <2>3. PICK c \in Task : /\ task' = [task EXCEPT ![t] = c]
                          /\ c.pc = "prepare" /\ c.session = task[t].session
    BY <1>2, <1>3, <2>2, GotoBecomes
  <2>4. lease = NoLease /\ task[t].session \in Sessions
    BY <1>1, <1>2, CallTypes DEF CallIsCovered, CallIsFormed, Issuing, ReadPcs
  <2>5. CallIsFormed(c)' /\ CallIsCovered(c)'
    BY <1>1, <2>3, <2>4 DEF CallIsFormed, CallIsCovered, RetirePcs, PlanPcs
  <2>6. MayHold(t, c)
    BY <1>1, <2>3 DEF MayHold, Slots, Reads, Writes, ReadPcs, WritePcs, RetirePcs
  <2> QED BY <1>1, <1>3, <2>1, <2>3, <2>5, <2>6, QuietStep
<1>4. CASE Return(t) /\ Fault /\ UNCHANGED wallet
  <2>1. StoreStep BY <1>1, <1>2, <1>4, StoreIdle
  <2> QED BY <1>1, <1>4, <2>1, ReturnStep
<1> QED BY <1>3, <1>4 DEF RecoverBeforeIssue

\* IssuePrepare goes on with the journalled request, which is for the wallet's note.
LEMMA IssuePrepare_Inv ==
  ASSUME ClientInv, NEW t \in Tasks, IssuePrepare(t)
  PROVE  ClientInv'
<1>1. UNCHANGED <<mode, lease, vault, planVars, serverVars>> /\ task[t].pc = "prepare"
      /\ prepare_direct_lease_request(t, "post")
  BY DEF IssuePrepare, At
<1>2. "post" \in Pcs BY DEF Pcs, ReadPcs
<1>3. StoreStep /\ (NoFault \/ Fault) BY <1>1, <1>2, Prepares
<1>4. CASE Return(t) BY <1>1, <1>3, <1>4, ReturnStep
<1>5. CASE ~Return(t)
  <2>1. PICK c \in Task :
          /\ task' = [task EXCEPT ![t] = c]
          /\ c.pc = "post" /\ c.id = wallet'.pending /\ c.session = task[t].session
          /\ c.id \in DOMAIN requests' /\ requests'[c.id].coin = wallet'.coin
    BY <1>1, <1>2, <1>5, Prepares
  <2>2. lease = NoLease /\ task[t].session \in Sessions
    BY <1>1, Parts, CallTypes DEF CallIsCovered, CallIsFormed, Issuing, ReadPcs
  <2>3. CallIsFormed(c)' BY <2>1, <2>2 DEF CallIsFormed, RetirePcs, PlanPcs
  <2>4. CallIsCovered(c)' BY <1>1, <2>1, <2>2 DEF CallIsCovered, RetirePcs, PlanPcs
  <2>5. MayHold(t, c)
    BY <1>1, <2>1 DEF MayHold, Slots, Reads, Writes, ReadPcs, WritePcs, RetirePcs
  <2> QED BY <1>1, <1>3, <2>1, <2>3, <2>4, <2>5, QuietStep
<1> QED BY <1>4, <1>5

\* RetirePrepare goes on with the journalled request of the lease.
LEMMA RetirePrepare_Inv ==
  ASSUME ClientInv, NEW t \in Tasks, RetirePrepare(t)
  PROVE  ClientInv'
<1>1. UNCHANGED <<mode, lease, vault, planVars, serverVars>> /\ task[t].pc = "retire_prepare"
      /\ prepare_direct_lease_request(t, "retire_post")
  BY DEF RetirePrepare, At
<1>2. "retire_post" \in Pcs BY DEF Pcs, RetirePcs
<1>3. StoreStep /\ (NoFault \/ Fault) BY <1>1, <1>2, Prepares
<1>4. CASE Return(t) BY <1>1, <1>3, <1>4, ReturnStep
<1>5. CASE ~Return(t)
  <2>1. PICK c \in Task :
          /\ task' = [task EXCEPT ![t] = c]
          /\ c.pc = "retire_post" /\ c.then = task[t].then /\ c.session = task[t].session
          /\ c.id \in DOMAIN requests'
    BY <1>1, <1>2, <1>5, Prepares
  <2>2. CallIsFormed(task[t]) /\ CallIsCovered(task[t]) BY Parts, CallTypes
  <2>3. /\ c.then # "none"
        /\ c.then \in {"recover", "prepare", "retry"} => c.session \in Sessions
        /\ c.then \in {"recover", "prepare"} => lease = NoLease
    BY <1>1, <2>1, <2>2 DEF CallIsFormed, CallIsCovered, Issuing, RetirePcs
  <2>4. CallIsFormed(c)' BY <2>1, <2>3 DEF CallIsFormed, RetirePcs, PlanPcs, ReadPcs
  <2>5. CallIsCovered(c)' BY <1>1, <2>1, <2>3 DEF CallIsCovered, Issuing, RetirePcs
  <2>6. MayHold(t, c)
    BY <1>1, <2>1 DEF MayHold, Slots, Reads, Writes, ReadPcs, WritePcs, RetirePcs
  <2> QED BY <1>1, <1>3, <2>1, <2>4, <2>5, <2>6, QuietStep
<1> QED BY <1>4, <1>5

\* SettlePrepare goes on with the journalled request of a lost key.
LEMMA SettlePrepare_Inv ==
  ASSUME ClientInv, NEW t \in Tasks, SettlePrepare(t)
  PROVE  ClientInv'
<1>1. UNCHANGED <<mode, lease, vault, planVars, serverVars>> /\ task[t].pc = "settle"
      /\ prepare_direct_lease_request(t, "find")
  BY DEF SettlePrepare, At
<1>2. "find" \in Pcs BY DEF Pcs, WritePcs
<1>3. StoreStep /\ (NoFault \/ Fault) BY <1>1, <1>2, Prepares
<1>4. CASE Return(t) BY <1>1, <1>3, <1>4, ReturnStep
<1>5. CASE ~Return(t)
  <2>1. PICK c \in Task :
          /\ task' = [task EXCEPT ![t] = c]
          /\ c.pc = "find" /\ c.id = wallet'.pending /\ c.id \in DOMAIN requests'
    BY <1>1, <1>2, <1>5, Prepares
  <2>2. CallIsFormed(c)' BY <2>1 DEF CallIsFormed, RetirePcs, PlanPcs, ReadPcs
  <2>3. CallIsCovered(c)' BY <2>1 DEF CallIsCovered, Issuing, RetirePcs
  <2>4. MayHold(t, c)
    BY <1>1, <2>1 DEF MayHold, Slots, Reads, Writes, ReadPcs, WritePcs, RetirePcs
  <2> QED BY <1>1, <1>3, <2>1, <2>2, <2>3, <2>4, QuietStep
<1> QED BY <1>4, <1>5

\* The holder of the slot's lock is alone with it, and excludes every writer.
LEMMA SlotExcludes ==
  ASSUME CallsOK, NEW t \in Tasks, Slots(task[t])
  PROVE  /\ \A u \in Tasks \ {t} : ~Slots(task[u]) /\ ~Writes(task[u])
         /\ \A u \in Tasks \ {t} : task[u].pc \notin {"post", "find"}
<1>1. \A u \in Tasks \ {t} : ~Slots(task[u]) /\ ~Writes(task[u])
  BY LocksOfCalls DEF CallsOK, Slots
<1>2. \A u \in Tasks : /\ task[u].pc = "post" => Slots(task[u])
                       /\ task[u].pc = "find" => Writes(task[u])
  BY DEF Slots, Reads, Writes, ReadPcs, WritePcs
<1> QED BY <1>1, <1>2

\* A writer excludes every other holder of a lock.
LEMMA WriteExcludes ==
  ASSUME CallsOK, NEW t \in Tasks, Writes(task[t])
  PROVE  /\ \A u \in Tasks \ {t} : ~Reads(task[u]) /\ ~Writes(task[u])
         /\ \A u \in Tasks \ {t} : task[u].pc \notin {"post", "find"}
<1>1. \A u \in Tasks \ {t} : ~Reads(task[u]) /\ ~Writes(task[u])
  BY LocksOfCalls DEF CallsOK
<1>2. \A u \in Tasks : /\ task[u].pc = "post" => Reads(task[u])
                       /\ task[u].pc = "find" => Writes(task[u])
  BY DEF Reads, Writes, ReadPcs, WritePcs
<1> QED BY <1>1, <1>2

\* The record of a call whose lease has been opened.
LEMMA OpenedBecomes ==
  ASSUME CallsOK, NEW t \in Tasks,
         task' = [task EXCEPT ![t].pc = "verify", ![t].id = 0, ![t].used = @ \cap {"replacement"}]
  PROVE  \E c \in Task :
           task' = [task EXCEPT ![t] = c] /\ c.pc = "verify" /\ c.session = task[t].session
<1>1. task[t] \in Task /\ task \in [Tasks -> Task] BY DEF CallsOK
<1> DEFINE c == [task[t] EXCEPT !.pc = "verify", !.id = 0, !.used = @ \cap {"replacement"}]
<1>2. c \in Task
  <2>1. "verify" \in ReadPcs BY DEF ReadPcs
  <2>2. task[t].used \cap {"replacement"} \in SUBSET Reasons BY CallTypes
  <2> QED BY <1>1, <2>1, <2>2 DEF Task, Reasons
<1>3. c.pc = "verify" /\ c.session = task[t].session
  BY <1>1 DEF Task
<1>4. task' = [task EXCEPT ![t] = c] OBVIOUS
<1> HIDE DEF c
<1> QED BY <1>2, <1>3, <1>4

\* LeaseOpened keeps the key of the journalled request, and no other call relies on none.
LEMMA LeaseOpened_Inv ==
  ASSUME ClientInv, NEW t \in Tasks, task[t].pc = "post", NEW id, id = task[t].id,
         \/ Row(id).status = "unknown"
         \/ Row(id) = [status |-> "reserved", id |-> id] /\ leases[id] = "none",
         LeaseOpened(t, id), UNCHANGED <<mode, wallet, requests, expired, vault, planVars>>
  PROVE  ClientInv'
<1>1. StoreOK /\ PlansOK /\ KeyOK /\ CallsOK /\ FaultsOK BY Parts
<1>2. CallIsFormed(task[t]) /\ CallIsCovered(task[t]) BY <1>1, CallTypes
<1>3. id \in DOMAIN requests /\ id \in Ids /\ id # 0 /\ task[t].session \in Sessions
  BY <1>1, <1>2, RequestTypes DEF CallIsFormed, ReadPcs, StoreOK
<1>4. /\ Row(id).status = "unknown" => wallet.pending = id \/ wallet.coin = NoCoin
      /\ vault[requests[id].coin.note].status = "closed" \/ requests[id].coin.note = wallet.coin.note
      /\ lease = NoLease
  BY <1>2 DEF CallIsCovered, Issuing, NoteClosed
<1>5. leases[id] = "none"
  <2>1. Row(id).status = "unknown" => leases[id] = "none"
    BY <1>1, <1>3 DEF StoreOK, RowsAnswerRequests
  <2> QED BY <2>1
<1>6. StoreStep
  BY <1>1, <1>3, <1>4, StoreOpensLease DEF LeaseOpened
<1>7. NoFault \/ Fault BY DEF LeaseOpened
<1>8. CASE Return(t) /\ lease' = lease
  BY <1>6, <1>7, <1>8, ReturnStep
<1>9. CASE /\ leases' = [leases EXCEPT ![id] = "active"]
           /\ lease' = [id |-> id, session |-> task[t].session, verified |-> KeySource = "openrouter"]
           /\ task' = [task EXCEPT ![t].pc = "verify", ![t].id = 0, ![t].used = @ \cap {"replacement"}]
  <2>1. PICK c \in Task :
          task' = [task EXCEPT ![t] = c] /\ c.pc = "verify" /\ c.session = task[t].session
    BY <1>1, <1>9, OpenedBecomes
  <2>2. leases'[id] # "none" BY <1>1, <1>3, <1>9 DEF StoreOK, ServerTypes
  <2>3. lease' \in ActiveOpenRouterLease /\ lease'.id = id /\ lease'.session = task[t].session
        /\ lease' # NoLease
    BY <1>3, <1>9 DEF ActiveOpenRouterLease, NoLease
  <2>4. KeyOK'
    BY <1>3, <1>4, <2>2, <2>3 DEF KeyOK, KeyIsLeased, NoteClosed
  <2>5. PlansOK' BY <1>1, <1>6, PlansKept DEF StoreStep
  <2>6. Slots(task[t]) BY DEF Slots, Reads, ReadPcs
  <2>7. KeyMoves(t)
    <3>1. \A u \in Tasks \ {t} : ~Slots(task[u]) BY <1>1, <2>6, SlotExcludes
    <3>2. ASSUME NEW u \in Tasks \ {t}, task[u].pc = "infer" PROVE task[u].id # lease.id
      <4>1. task[u].id \in DOMAIN requests BY <1>1, <3>2, CallTypes DEF CallIsFormed
      <4>2. task[u].id # 0 BY <1>1, <4>1, RequestTypes DEF StoreOK
      <4> QED BY <1>4, <4>2 DEF NoLease
    <3> QED BY <1>3, <1>5, <2>3, <3>1, <3>2 DEF KeyMoves
  <2>8. JournalMoves(t) BY <1>6 DEF StoreStep, JournalMoves
  <2>9. CallIsFormed(c)' /\ CallIsCovered(c)'
    BY <1>3, <2>1, <2>3 DEF CallIsFormed, CallIsCovered, Issuing, RetirePcs, PlanPcs
  <2>10. MayHold(t, c)
    BY <2>1, <2>6 DEF MayHold, Slots, Reads, Writes, ReadPcs, WritePcs, RetirePcs
  <2>11. CallsOK'
    BY <1>1, <1>6, <2>1, <2>7, <2>8, <2>9, <2>10, CallStep DEF StoreStep
  <2> QED BY <1>1, <1>6, <1>7, <2>4, <2>5, <2>11, FaultsKept, PartsNext DEF StoreStep
<1> QED BY <1>8, <1>9 DEF LeaseOpened

\* issue_direct_openrouter_lease: a journal is cleared only for a request that was refused.
LEMMA issue_direct_openrouter_lease_Inv ==
  ASSUME ClientInv, NEW t \in Tasks, issue_direct_openrouter_lease(t)
  PROVE  ClientInv'
<1>1. StoreOK /\ PlansOK /\ KeyOK /\ CallsOK /\ FaultsOK BY Parts
<1> PICK id : id = task[t].id OBVIOUS
<1>2. task[t].pc = "post" /\ UNCHANGED <<mode, requests, expired, vault, planVars>>
  BY DEF issue_direct_openrouter_lease, At
<1>3. CallIsFormed(task[t]) /\ CallIsCovered(task[t]) BY <1>1, CallTypes
<1>4. id \in DOMAIN requests /\ id \in Ids /\ id # 0 /\ task[t].session \in Sessions /\ lease = NoLease
  BY <1>1, <1>2, <1>3, RequestTypes DEF CallIsFormed, CallIsCovered, Issuing, ReadPcs, StoreOK
<1>5. Slots(task[t]) BY <1>2 DEF Slots, Reads, ReadPcs
<1>6. CASE /\ \/ Row(id).status = "unknown"
              \/ Row(id) = [status |-> "reserved", id |-> id] /\ leases[id] = "none"
           /\ LeaseOpened(t, id) /\ UNCHANGED wallet
  BY <1>2, <1>6, LeaseOpened_Inv
<1>7. CASE UNCHANGED <<lease, nullifiers, leases>> /\ Return(t) /\ UNCHANGED wallet /\ (NoFault \/ Fault)
  <2>1. StoreStep BY <1>1, <1>2, <1>7, StoreIdle DEF serverVars
  <2> QED BY <1>2, <1>7, <2>1, ReturnStep
<1>8. CASE UNCHANGED <<lease, nullifiers, leases>> /\ Goto(t, "lost_key") /\ NoFault /\ UNCHANGED wallet
  <2>1. StoreStep BY <1>1, <1>2, <1>8, StoreIdle DEF serverVars
  <2>2. "lost_key" \in Pcs BY DEF Pcs, ReadPcs
  <2>3. PICK c \in Task : /\ task' = [task EXCEPT ![t] = c] /\ c.pc = "lost_key"
                          /\ c.id = id /\ c.session = task[t].session
    BY <1>1, <1>8, <2>2, GotoBecomes
  <2>4. CallIsFormed(c)' /\ CallIsCovered(c)'
    BY <1>2, <1>4, <1>8, <2>3 DEF CallIsFormed, CallIsCovered, RetirePcs, PlanPcs
  <2>5. MayHold(t, c)
    BY <1>5, <2>3 DEF MayHold, Slots, Reads, Writes, ReadPcs, WritePcs, RetirePcs
  <2> QED BY <1>2, <1>8, <2>1, <2>3, <2>4, <2>5, QuietStep
<1>9. CASE /\ UNCHANGED <<lease, nullifiers, leases>> /\ Row(id).status = "unknown"
           /\ wallet' = Cleared /\ Again(t, "stale_root") /\ Fault
  <2>1. wallet.pending = id \/ wallet.coin = NoCoin
    BY <1>2, <1>3, <1>9 DEF CallIsCovered
  <2>2. wallet.coin # NoCoin => nullifiers[wallet.coin].status \in {"unknown", "clearance_reserved"}
    BY <1>1, <1>4, <1>9, <2>1 DEF StoreOK, WalletOK, Row
  <2>3. StoreOK' /\ Grows /\ Moves BY <1>1, <1>2, <1>9, <2>2, StoreClears DEF serverVars
  <2>4. "stale_root" \in Reasons BY DEF Reasons
  <2>5. PICK c \in Task : /\ task' = [task EXCEPT ![t] = c] /\ c.pc = "prepare"
                          /\ c.session = task[t].session
    BY <1>1, <1>9, <2>4, AgainBecomes
  <2>6. JournalMoves(t) BY <1>1, <1>5, SlotExcludes DEF JournalMoves
  <2>7. KeyMoves(t) BY <1>9 DEF KeyMoves
  <2>8. CallIsFormed(c)' /\ CallIsCovered(c)'
    BY <1>4, <1>9, <2>5 DEF CallIsFormed, CallIsCovered, RetirePcs, PlanPcs
  <2>9. MayHold(t, c)
    BY <1>5, <2>5 DEF MayHold, Slots, Reads, Writes, ReadPcs, WritePcs, RetirePcs
  <2>10. CallsOK' BY <1>1, <2>3, <2>5, <2>6, <2>7, <2>8, <2>9, CallStep
  <2>11. KeyOK' BY <1>1, <1>9, <2>3, KeyKept
  <2>12. PlansOK' BY <1>1, <1>2, <2>3, PlansKept
  <2> QED BY <1>1, <1>9, <2>3, <2>10, <2>11, <2>12, FaultsKept, PartsNext
<1> QED BY <1>6, <1>7, <1>8, <1>9 DEF issue_direct_openrouter_lease

\* A step of call t that may forget the key and leaves the plans alone.
LEMMA KeyStep ==
  ASSUME ClientInv, StoreStep, UNCHANGED planVars, NoFault \/ Fault,
         lease' = lease \/ lease' = NoLease,
         NEW t \in Tasks, NEW c \in Task, task' = [task EXCEPT ![t] = c], c.pc # "infer",
         KeyMoves(t), MayHold(t, c), CallIsFormed(c)', CallIsCovered(c)'
  PROVE  ClientInv'
<1>1. StoreOK /\ PlansOK /\ KeyOK /\ CallsOK /\ FaultsOK BY Parts
<1>2. StoreOK' /\ Grows /\ Moves /\ JournalKept BY DEF StoreStep
<1>3. PlansOK' BY <1>1, <1>2, PlansKept
<1>4. KeyOK' BY <1>1, <1>2, KeyKept
<1>5. JournalMoves(t) BY <1>2 DEF JournalMoves
<1>6. CallsOK' BY <1>1, <1>2, <1>5, CallStep
<1> QED BY <1>1, <1>2, <1>3, <1>4, <1>6, FaultsKept, PartsNext

\* ensure_direct_openrouter_lease takes both locks, and forgets only an expired key.
LEMMA ensure_direct_openrouter_lease_Inv ==
  ASSUME ClientInv, NEW t \in Tasks, ensure_direct_openrouter_lease(t)
  PROVE  ClientInv'
<1>1. StoreOK /\ PlansOK /\ KeyOK /\ CallsOK /\ FaultsOK BY Parts
<1>2. /\ task[t].pc = "guarded" /\ CanRead(t) /\ SlotFree
      /\ UNCHANGED <<mode, wallet, requests, vault, faults, planVars, serverVars>>
  BY DEF ensure_direct_openrouter_lease, At
<1>3. StoreStep BY <1>1, <1>2, StoreIdle
<1>4. /\ \A u \in Tasks : ~Writes(task[u]) /\ ~Slots(task[u])
      /\ task[t].session \in Sessions /\ (NoFault \/ Fault)
  <2>1. \A u \in Tasks : ~Writes(task[u]) /\ ~Slots(task[u])
    BY <1>2, LocksOfCalls DEF CanRead, SlotFree
  <2> QED BY <1>1, <1>2, <2>1, CallTypes DEF CallIsFormed, NoFault
<1>5. CASE LiveLease /\ lease.session = task[t].session /\ Goto(t, "verify") /\ UNCHANGED lease
  <2>1. "verify" \in Pcs BY DEF Pcs, ReadPcs
  <2>2. PICK c \in Task : /\ task' = [task EXCEPT ![t] = c]
                          /\ c.pc = "verify" /\ c.session = task[t].session
    BY <1>1, <1>5, <2>1, GotoBecomes
  <2>3. CallIsFormed(c)' /\ CallIsCovered(c)'
    BY <1>4, <1>5, <2>2 DEF CallIsFormed, CallIsCovered, Issuing, RetirePcs, PlanPcs, LiveLease
  <2>4. MayHold(t, c) BY <1>4, <2>2 DEF MayHold, Writes, WritePcs, RetirePcs
  <2> QED BY <1>2, <1>3, <1>4, <1>5, <2>2, <2>3, <2>4, QuietStep
<1>6. CASE Return(t) /\ UNCHANGED lease
  BY <1>2, <1>3, <1>4, <1>6, ReturnStep
<1>7. CASE lease # NoLease /\ ~LiveLease /\ Retire(t, lease.id, "recover") /\ lease' = NoLease
  <2> PICK i : i = lease.id OBVIOUS
  <2>1. i \in DOMAIN requests /\ i \in Ids /\ i \in expired /\ "recover" \in Thens
    BY <1>1, <1>7, RequestTypes DEF KeyOK, KeyIsLeased, StoreOK, LiveLease, Thens
  <2>2. PICK c \in Task : /\ task' = [task EXCEPT ![t] = c] /\ c.pc = "retire_prepare"
                          /\ c.id = i /\ c.then = "recover" /\ c.session = task[t].session
    BY <1>1, <1>7, <2>1, RetireBecomes
  <2>3. KeyMoves(t) BY <1>4, <1>7, <2>1 DEF KeyMoves
  <2>4. CallIsFormed(c)' /\ CallIsCovered(c)'
    BY <1>2, <1>4, <1>7, <2>1, <2>2 DEF CallIsFormed, CallIsCovered, RetirePcs, PlanPcs, ReadPcs
  <2>5. MayHold(t, c) BY <1>4, <2>2 DEF MayHold, Writes, WritePcs, RetirePcs
  <2> QED BY <1>2, <1>3, <1>4, <1>7, <2>2, <2>3, <2>4, <2>5, KeyStep
<1>8. CASE lease = NoLease /\ Goto(t, "recover") /\ UNCHANGED lease
  <2>1. "recover" \in Pcs BY DEF Pcs, ReadPcs
  <2>2. PICK c \in Task : /\ task' = [task EXCEPT ![t] = c]
                          /\ c.pc = "recover" /\ c.session = task[t].session
    BY <1>1, <1>8, <2>1, GotoBecomes
  <2>3. CallIsFormed(c)' /\ CallIsCovered(c)'
    BY <1>4, <1>8, <2>2 DEF CallIsFormed, CallIsCovered, RetirePcs, PlanPcs
  <2>4. MayHold(t, c) BY <1>4, <2>2 DEF MayHold, Writes, WritePcs, RetirePcs
  <2> QED BY <1>2, <1>3, <1>4, <1>8, <2>2, <2>3, <2>4, QuietStep
<1> QED BY <1>5, <1>6, <1>7, <1>8 DEF ensure_direct_openrouter_lease, ReusableBy

\* LostKey retires the lease of the journal, or goes on without it once it is settled.
LEMMA LostKey_Inv ==
  ASSUME ClientInv, NEW t \in Tasks, LostKey(t)
  PROVE  ClientInv'
<1>1. StoreOK /\ CallsOK BY Parts
<1>2. task[t].pc = "lost_key" /\ UNCHANGED <<mode, requests, lease, vault, planVars, serverVars>>
  BY DEF LostKey, At
<1> PICK id : id = task[t].id OBVIOUS
<1>3. id \in DOMAIN requests /\ id \in Ids /\ task[t].session \in Sessions /\ lease = NoLease
  BY <1>1, <1>2, CallTypes, RequestTypes
  DEF CallIsFormed, CallIsCovered, Issuing, ReadPcs, StoreOK
<1>4. Slots(task[t]) BY <1>2 DEF Slots, Reads, ReadPcs
<1>5. CASE Return(t) /\ (NoFault \/ Fault) /\ (wallet' = wallet \/ wallet' = Recovered)
  <2>1. StoreStep BY <1>1, <1>2, <1>5, StoreIdle, StoreRecovers
  <2> QED BY <1>2, <1>5, <2>1, ReturnStep
<1>6. CASE Retire(t, id, "prepare") /\ NoFault /\ UNCHANGED wallet
  <2>1. StoreStep BY <1>1, <1>2, <1>6, StoreIdle
  <2>2. "prepare" \in Thens BY DEF Thens
  <2>3. PICK c \in Task : /\ task' = [task EXCEPT ![t] = c] /\ c.pc = "retire_prepare"
                          /\ c.id = id /\ c.then = "prepare" /\ c.session = task[t].session
    BY <1>1, <1>3, <1>6, <2>2, RetireBecomes
  <2>4. CallIsFormed(c)' /\ CallIsCovered(c)'
    BY <1>2, <1>3, <2>3 DEF CallIsFormed, CallIsCovered, RetirePcs, PlanPcs, ReadPcs
  <2>5. MayHold(t, c)
    BY <1>4, <2>3 DEF MayHold, Slots, Reads, Writes, WritePcs, RetirePcs
  <2> QED BY <1>2, <1>6, <2>1, <2>3, <2>4, <2>5, QuietStep
<1>7. CASE wallet' = Recovered /\ Again(t, "lost_key") /\ NoFault
  <2>1. StoreStep BY <1>1, <1>2, <1>7, StoreRecovers
  <2>2. "lost_key" \in Reasons BY DEF Reasons
  <2>3. PICK c \in Task : /\ task' = [task EXCEPT ![t] = c] /\ c.pc = "prepare"
                          /\ c.session = task[t].session
    BY <1>1, <1>7, <2>2, AgainBecomes
  <2>4. CallIsFormed(c)' /\ CallIsCovered(c)'
    BY <1>2, <1>3, <2>3 DEF CallIsFormed, CallIsCovered, RetirePcs, PlanPcs
  <2>5. MayHold(t, c)
    BY <1>4, <2>3 DEF MayHold, Slots, Reads, Writes, ReadPcs, WritePcs, RetirePcs
  <2> QED BY <1>2, <1>7, <2>1, <2>3, <2>4, <2>5, QuietStep
<1> QED BY <1>5, <1>6, <1>7 DEF LostKey

-----------------------------------------------------------------------------
(* Use and retirement of the key *)

\* VerifyKey hands the key to the call of its own session.
LEMMA VerifyKey_Inv ==
  ASSUME ClientInv, NEW t \in Tasks, VerifyKey(t)
  PROVE  ClientInv'
<1>1. StoreOK /\ PlansOK /\ KeyOK /\ CallsOK /\ FaultsOK BY Parts
<1>2. task[t].pc = "verify" /\ UNCHANGED <<mode, wallet, requests, vault, planVars, serverVars>>
  BY DEF VerifyKey, At
<1>3. StoreStep BY <1>1, <1>2, StoreIdle
<1>4. task[t].session \in Sessions /\ lease # NoLease /\ lease.session = task[t].session
  BY <1>1, <1>2, CallTypes DEF CallIsFormed, CallIsCovered, ReadPcs
<1>5. Slots(task[t]) BY <1>2 DEF Slots, Reads, ReadPcs
<1>6. CASE Return(t) /\ (NoFault \/ Fault) /\ UNCHANGED lease
  BY <1>2, <1>3, <1>6, ReturnStep
<1>7. CASE /\ lease' = [lease EXCEPT !.verified = TRUE]
           /\ task' = [task EXCEPT ![t].pc = "infer", ![t].id = lease.id] /\ NoFault
  <2> PICK i : i = lease.id OBVIOUS
  <2>1. i \in Ids /\ i \in DOMAIN requests /\ leases[i] # "none"
    BY <1>1, <1>4, RequestTypes DEF KeyOK, KeyIsLeased, StoreOK
  <2>2. lease' \in ActiveOpenRouterLease /\ lease'.id = i /\ lease'.session = lease.session
    BY <1>1, <1>4, <1>7 DEF KeyOK, ActiveOpenRouterLease
  <2>3. PICK c : c = [task[t] EXCEPT !.pc = "infer", !.id = i] OBVIOUS
  <2>4. c \in Task /\ c.pc = "infer" /\ c.id = i /\ c.session = task[t].session
        /\ task' = [task EXCEPT ![t] = c]
    <3>1. "infer" \in ReadPcs /\ task[t] \in Task BY <1>1, CallTypes DEF ReadPcs
    <3>2. c.pc = "infer" /\ c.id = i /\ c.session = task[t].session BY <2>3, <3>1 DEF Task
    <3>3. c \in Task BY <2>1, <2>3, <3>1 DEF Task
    <3>4. task' = [task EXCEPT ![t] = c] BY <1>1, <1>7, <2>3 DEF CallsOK
    <3> QED BY <3>2, <3>3, <3>4
  <2>5. \A u \in Tasks \ {t} : ~Slots(task[u]) BY <1>1, <1>5, SlotExcludes
  <2>6. KeyMoves(t) BY <2>2, <2>5 DEF KeyMoves
  <2>7. JournalMoves(t) BY <1>3 DEF StoreStep, JournalMoves
  <2>8. MayHold(t, c)
    BY <1>5, <2>4 DEF MayHold, Slots, Writes, WritePcs, RetirePcs
  <2>9. UNCHANGED <<requests, leases>> BY <1>2 DEF serverVars
  <2>10. CallIsFormed(c)' /\ CallIsCovered(c)'
    BY <1>4, <2>1, <2>2, <2>4, <2>9 DEF CallIsFormed, CallIsCovered, Issuing, RetirePcs, PlanPcs
  <2>11. CallsOK'
    BY <1>1, <1>3, <1>4, <2>2, <2>4, <2>6, <2>7, <2>8, <2>10, CallStep DEF StoreStep
  <2>12. KeyOK' BY <1>1, <1>3, <1>4, <2>2, KeyKept DEF StoreStep
  <2>13. PlansOK' BY <1>1, <1>2, <1>3, PlansKept DEF StoreStep
  <2> QED BY <1>1, <1>3, <1>7, <2>11, <2>12, <2>13, FaultsKept, PartsNext DEF StoreStep
<1> QED BY <1>6, <1>7 DEF VerifyKey, verify_oa_key

\* InferenceEnds drops the shared lock.
LEMMA InferenceEnds_Inv ==
  ASSUME ClientInv, NEW t \in Tasks, InferenceEnds(t)
  PROVE  ClientInv'
<1>1. UNCHANGED <<mode, wallet, requests, lease, vault, planVars, serverVars>> /\ Return(t)
      /\ (NoFault \/ Fault)
  BY DEF InferenceEnds, send_openrouter_request
<1>2. StoreStep BY <1>1, Parts, StoreIdle
<1> QED BY <1>1, <1>2, ReturnStep

\* InferenceFails drops the shared lock and keeps the request of the refused key.
LEMMA InferenceFails_Inv ==
  ASSUME ClientInv, NEW t \in Tasks, InferenceFails(t)
  PROVE  ClientInv'
<1>1. UNCHANGED <<mode, wallet, requests, lease, vault, planVars, serverVars>>
      /\ task[t].pc = "infer" /\ (NoFault \/ Fault)
  BY DEF InferenceFails, send_openrouter_request, At
<1>2. StoreStep /\ CallsOK BY <1>1, Parts, StoreIdle
<1>3. PICK h \in {"retry", "fail"} : task' = [task EXCEPT ![t].pc = "rejected", ![t].then = h]
  BY DEF InferenceFails
<1>4. CallIsFormed(task[t]) /\ task[t] \in Task BY <1>2, CallTypes
<1>5. task[t].session \in Sessions /\ task[t].id \in DOMAIN requests
  BY <1>1, <1>4 DEF CallIsFormed, ReadPcs
<1>6. PICK c : c = [task[t] EXCEPT !.pc = "rejected", !.then = h] OBVIOUS
<1>7. c.pc = "rejected" /\ c.then = h /\ c.session = task[t].session /\ c.id = task[t].id
  BY <1>4, <1>6 DEF Task
<1>8. c \in Task /\ task' = [task EXCEPT ![t] = c]
  <2>1. "rejected" \in OtherPcs BY DEF OtherPcs
  <2>2. c \in Task BY <1>4, <1>6, <2>1 DEF Task
  <2> QED BY <1>2, <1>3, <1>6, <2>2 DEF CallsOK
<1>9. CallIsFormed(c)' /\ CallIsCovered(c)'
  BY <1>1, <1>5, <1>7 DEF CallIsFormed, CallIsCovered, Issuing, RetirePcs, PlanPcs
<1>10. MayHold(t, c)
  BY <1>7 DEF MayHold, Slots, Reads, Writes, ReadPcs, WritePcs, RetirePcs
<1> QED BY <1>1, <1>2, <1>6, <1>7, <1>8, <1>9, <1>10, QuietStep

\* What the exclusive lock excludes
LEMMA CanWriteExcludes ==
  ASSUME NEW t \in Tasks, CanWrite(t)
  PROVE  /\ \A u \in Tasks : ~Reads(task[u]) /\ ~Writes(task[u]) /\ ~Slots(task[u])
         /\ \A u \in Tasks : task[u].pc # "infer"
<1>1. \A u \in Tasks : ~Reads(task[u]) /\ ~Writes(task[u])
  BY LocksOfCalls DEF CanWrite
<1> QED BY <1>1 DEF Slots, Reads, ReadPcs

\* DropRejectedKey forgets the refused key once no call uses it.
LEMMA DropRejectedKey_Inv ==
  ASSUME ClientInv, NEW t \in Tasks, DropRejectedKey(t)
  PROVE  ClientInv'
<1>1. StoreOK /\ CallsOK BY Parts
<1>2. /\ UNCHANGED <<mode, wallet, requests, vault, faults, planVars, serverVars>>
      /\ task[t].pc = "rejected" /\ CanWrite(t) /\ Goto(t, "retire_prepare")
      /\ lease' = lease \/ lease' = NoLease
  BY DEF DropRejectedKey, At
<1>3. StoreStep BY <1>1, <1>2, StoreIdle
<1>4. "retire_prepare" \in Pcs BY DEF Pcs, RetirePcs
<1>5. PICK c \in Task : /\ task' = [task EXCEPT ![t] = c] /\ c.pc = "retire_prepare"
                        /\ c.id = task[t].id /\ c.then = task[t].then /\ c.session = task[t].session
  BY <1>1, <1>2, <1>4, GotoBecomes
<1>6. task[t].id \in DOMAIN requests /\ task[t].then \in {"retry", "fail"} /\ task[t].session \in Sessions
  BY <1>1, <1>2, CallTypes DEF CallIsFormed
<1>7. CallIsFormed(c)' /\ CallIsCovered(c)'
  BY <1>2, <1>5, <1>6 DEF CallIsFormed, CallIsCovered, Issuing, RetirePcs, PlanPcs, ReadPcs
<1>8. KeyMoves(t) BY <1>2, CanWriteExcludes DEF KeyMoves
<1>9. MayHold(t, c) BY <1>2, CanWriteExcludes DEF MayHold
<1> QED BY <1>2, <1>3, <1>5, <1>7, <1>8, <1>9, KeyStep DEF NoFault

\* RetirePost settles the lease at the server.
LEMMA RetirePost_Inv ==
  ASSUME ClientInv, NEW t \in Tasks, RetirePost(t)
  PROVE  ClientInv'
<1>1. StoreOK /\ CallsOK BY Parts
<1> PICK id : id = task[t].id OBVIOUS
<1>2. task[t].pc = "retire_post" /\ UNCHANGED <<mode, wallet, requests, lease, expired, vault, planVars>>
      /\ (NoFault \/ Fault)
  BY DEF RetirePost, At
<1>3. CallIsFormed(task[t]) /\ CallIsCovered(task[t]) BY <1>1, CallTypes
<1>4. id \in DOMAIN requests /\ id \in Ids
  BY <1>1, <1>2, <1>3, RequestTypes DEF CallIsFormed, RetirePcs, StoreOK
<1>5. StoreStep
  <2>1. CASE leases[id] # "none" /\ Settled(id) BY <1>1, <1>2, <1>4, <2>1, StoreSettles
  <2>2. CASE UNCHANGED <<leases, nullifiers>> BY <1>1, <1>2, <2>2, StoreIdle DEF serverVars
  <2> QED BY <2>1, <2>2 DEF RetirePost
<1>6. CASE Return(t) BY <1>2, <1>5, <1>6, ReturnStep
<1>7. CASE Goto(t, "retire_recover")
  <2>1. "retire_recover" \in Pcs BY DEF Pcs, RetirePcs
  <2>2. PICK c \in Task : /\ task' = [task EXCEPT ![t] = c] /\ c.pc = "retire_recover"
                          /\ c.id = id /\ c.then = task[t].then /\ c.session = task[t].session
    BY <1>1, <1>7, <2>1, GotoBecomes
  <2>3. /\ c.then # "none"
        /\ c.then \in {"recover", "prepare", "retry"} => c.session \in Sessions
        /\ c.then \in {"recover", "prepare"} => lease = NoLease
    BY <1>2, <1>3, <2>2 DEF CallIsFormed, CallIsCovered, Issuing, RetirePcs
  <2>4. CallIsFormed(c)' BY <1>2, <1>4, <2>2, <2>3 DEF CallIsFormed, RetirePcs, PlanPcs, ReadPcs
  <2>5. CallIsCovered(c)' BY <1>2, <2>2, <2>3 DEF CallIsCovered, Issuing, RetirePcs
  <2>6. MayHold(t, c)
    BY <1>2, <2>2 DEF MayHold, Slots, Reads, Writes, ReadPcs, WritePcs, RetirePcs
  <2> QED BY <1>2, <1>5, <2>2, <2>4, <2>5, <2>6, QuietStep
<1> QED BY <1>6, <1>7 DEF RetirePost

\* A call goes on after its retirement: with the next lease, with a retry, or it ends.
LEMMA AfterRetirementBecomes ==
  ASSUME CallsOK, NEW t \in Tasks, AfterRetirement(t)
  PROVE  \/ Return(t)
         \/ \E c \in Task :
              /\ task' = [task EXCEPT ![t] = c] /\ c.session = task[t].session
              /\ \/ c.pc \in {"recover", "prepare"} /\ task[t].then \in {"recover", "prepare"}
                 \/ c.pc = "guarded" /\ task[t].then = "retry"
<1>1. task[t] \in Task /\ task \in [Tasks -> Task] BY DEF CallsOK
<1>2. CASE task[t].then = "recover"
  <2>1. PICK c : c = [task[t] EXCEPT !.pc = "recover", !.id = 0, !.then = "none"] OBVIOUS
  <2>2. c.pc = "recover" /\ c.session = task[t].session BY <1>1, <2>1 DEF Task
  <2>3. "recover" \in ReadPcs BY DEF ReadPcs
  <2>4. c \in Task BY <1>1, <2>1, <2>3 DEF Task
  <2>5. task' = [task EXCEPT ![t] = c] BY <1>2, <2>1 DEF AfterRetirement
  <2> QED BY <1>2, <2>2, <2>4, <2>5
<1>3. CASE task[t].then = "prepare"
  <2>1. Again(t, "lost_key") /\ "lost_key" \in Reasons BY <1>3 DEF AfterRetirement, Reasons
  <2> QED BY <1>3, <2>1, AgainBecomes
<1>4. CASE task[t].then = "retry"
  <2>1. PICK c : c = [task[t] EXCEPT !.pc = "guarded", !.id = 0, !.then = "none", !.used = {"replacement"}]
    OBVIOUS
  <2>2. c.pc = "guarded" /\ c.session = task[t].session BY <1>1, <2>1 DEF Task
  <2>3. "guarded" \in OtherPcs /\ {"replacement"} \in SUBSET {"stale_root", "lost_key", "replacement"}
    BY DEF OtherPcs
  <2>4. c \in Task BY <1>1, <2>1, <2>3 DEF Task
  <2>5. task' = [task EXCEPT ![t] = c] BY <1>4, <2>1 DEF AfterRetirement
  <2> QED BY <1>4, <2>2, <2>4, <2>5
<1>5. CASE task[t].then \notin {"recover", "prepare", "retry"}
  BY <1>5 DEF AfterRetirement
<1> QED BY <1>2, <1>3, <1>4, <1>5

\* RetireRecover installs the settled request and goes on.
LEMMA RetireRecover_Inv ==
  ASSUME ClientInv, NEW t \in Tasks, RetireRecover(t)
  PROVE  ClientInv'
<1>1. StoreOK /\ CallsOK BY Parts
<1>2. task[t].pc = "retire_recover" /\ UNCHANGED <<mode, requests, lease, vault, planVars, serverVars>>
      /\ (NoFault \/ Fault)
  BY DEF RetireRecover, At
<1>3. CallIsFormed(task[t]) /\ CallIsCovered(task[t]) BY <1>1, CallTypes
<1>4. StoreStep
  BY <1>1, <1>2, StoreIdle, StoreRecovers DEF RetireRecover
<1>5. CASE Return(t) BY <1>2, <1>4, <1>5, ReturnStep
<1>6. CASE ~Return(t)
  <2>1. AfterRetirement(t) BY <1>6 DEF RetireRecover
  <2>2. PICK c \in Task :
          /\ task' = [task EXCEPT ![t] = c] /\ c.session = task[t].session
          /\ \/ c.pc \in {"recover", "prepare"} /\ task[t].then \in {"recover", "prepare"}
             \/ c.pc = "guarded" /\ task[t].then = "retry"
    BY <1>1, <1>6, <2>1, AfterRetirementBecomes
  <2>3. /\ c.session \in Sessions
        /\ c.pc # "guarded" => lease = NoLease
    BY <1>2, <1>3, <2>2 DEF CallIsFormed, CallIsCovered, Issuing, RetirePcs
  <2>4. CallIsFormed(c)' /\ CallIsCovered(c)'
    BY <1>2, <2>2, <2>3 DEF CallIsFormed, CallIsCovered, Issuing, RetirePcs, PlanPcs
  <2>5. MayHold(t, c)
    BY <1>2, <2>2 DEF MayHold, Slots, Reads, Writes, ReadPcs, WritePcs, RetirePcs
  <2> QED BY <1>2, <1>4, <2>2, <2>4, <2>5, QuietStep
<1> QED BY <1>5, <1>6

-----------------------------------------------------------------------------
(* settle_for_withdrawal *)

\* settle_for_withdrawal forgets the key only under the exclusive lock.
LEMMA settle_for_withdrawal_Inv ==
  ASSUME ClientInv, NEW t \in Tasks, settle_for_withdrawal(t)
  PROVE  ClientInv'
<1>1. StoreOK /\ CallsOK /\ KeyOK BY Parts
<1>2. CanWrite(t) /\ UNCHANGED <<mode, wallet, requests, vault, faults, planVars, serverVars>>
  BY DEF settle_for_withdrawal
<1>3. StoreStep /\ NoFault BY <1>1, <1>2, StoreIdle DEF NoFault
<1>4. CASE lease # NoLease /\ Retire(t, lease.id, "settled") /\ lease' = NoLease
  <2> PICK i : i = lease.id OBVIOUS
  <2>1. i \in DOMAIN requests /\ i \in Ids /\ "settled" \in Thens
    BY <1>1, <1>4, RequestTypes DEF KeyOK, KeyIsLeased, StoreOK, Thens
  <2>2. PICK c \in Task : /\ task' = [task EXCEPT ![t] = c] /\ c.pc = "retire_prepare"
                          /\ c.id = i /\ c.then = "settled"
    BY <1>1, <1>4, <2>1, RetireBecomes
  <2>3. CallIsFormed(c)' /\ CallIsCovered(c)'
    BY <1>2, <2>1, <2>2 DEF CallIsFormed, CallIsCovered, Issuing, RetirePcs, PlanPcs, ReadPcs
  <2>4. KeyMoves(t) BY <1>2, <1>4, CanWriteExcludes DEF KeyMoves
  <2>5. MayHold(t, c) BY <1>2, CanWriteExcludes DEF MayHold
  <2> QED BY <1>2, <1>3, <1>4, <2>2, <2>3, <2>4, <2>5, KeyStep
<1>5. ASSUME NEW p \in {"settle", "settle_recover"}, Goto(t, p), UNCHANGED lease
      PROVE  ClientInv'
  <2>1. p \in Pcs BY DEF Pcs, WritePcs
  <2>2. PICK c \in Task : task' = [task EXCEPT ![t] = c] /\ c.pc = p
    BY <1>1, <1>5, <2>1, GotoBecomes
  <2>3. CallIsFormed(c)' /\ CallIsCovered(c)'
    BY <2>2 DEF CallIsFormed, CallIsCovered, Issuing, RetirePcs, PlanPcs, ReadPcs
  <2>4. MayHold(t, c) BY <1>2, CanWriteExcludes DEF MayHold
  <2> QED BY <1>2, <1>3, <1>5, <2>2, <2>3, <2>4, QuietStep
<1> QED BY <1>4, <1>5 DEF settle_for_withdrawal, SettleStart

\* find_direct_lease_for_withdrawal clears the journal only of a request never accepted.
LEMMA find_direct_lease_for_withdrawal_Inv ==
  ASSUME ClientInv, NEW t \in Tasks, find_direct_lease_for_withdrawal(t)
  PROVE  ClientInv'
<1>1. StoreOK /\ PlansOK /\ KeyOK /\ CallsOK /\ FaultsOK BY Parts
<1> PICK id : id = task[t].id OBVIOUS
<1>2. task[t].pc = "find" /\ UNCHANGED <<mode, requests, lease, vault, planVars, serverVars>>
  BY DEF find_direct_lease_for_withdrawal, At
<1>3. CallIsFormed(task[t]) /\ CallIsCovered(task[t]) BY <1>1, CallTypes
<1>4. id \in DOMAIN requests /\ id \in Ids
  BY <1>1, <1>2, <1>3, RequestTypes DEF CallIsFormed, StoreOK
<1>5. Writes(task[t]) BY <1>2 DEF Writes, WritePcs
<1>6. CASE Orphaned(id) /\ wallet' = Cleared /\ Return(t) /\ NoFault
  <2>1. Row(id).status \in {"unknown", "clearance_reserved"}
    BY <1>6 DEF Orphaned, fetch_nullifier_recovery
  <2>2. wallet.pending = id \/ wallet.coin = NoCoin BY <1>2, <1>3, <2>1 DEF CallIsCovered
  <2>3. wallet.coin # NoCoin => nullifiers[wallet.coin].status \in {"unknown", "clearance_reserved"}
    <3>1. id # 0 BY <1>1, <1>4, RequestTypes DEF StoreOK
    <3> QED BY <1>1, <1>4, <2>1, <2>2, <3>1 DEF StoreOK, WalletOK, Row
  <2>4. StoreOK' /\ Grows /\ Moves BY <1>1, <1>2, <1>6, <2>3, StoreClears
  <2>5. task' = [task EXCEPT ![t] = Idle] BY <1>6 DEF Return
  <2>6. JournalMoves(t) BY <1>1, <1>5, WriteExcludes DEF JournalMoves
  <2>7. KeyMoves(t) BY <1>2 DEF KeyMoves
  <2>8. CallsOK' BY <1>1, <2>4, <2>5, <2>6, <2>7, IdleCall, CallStep
  <2>9. KeyOK' BY <1>1, <1>2, <2>4, KeyKept
  <2>10. PlansOK' BY <1>1, <1>2, <2>4, PlansKept
  <2> QED BY <1>1, <1>6, <2>4, <2>8, <2>9, <2>10, FaultsKept, PartsNext
<1>7. CASE Return(t) /\ (NoFault \/ Fault) /\ (wallet' = wallet \/ wallet' = Recovered)
  <2>1. StoreStep BY <1>1, <1>2, <1>7, StoreIdle, StoreRecovers
  <2> QED BY <1>2, <1>7, <2>1, ReturnStep
<1>8. CASE Retire(t, id, "settled") /\ NoFault /\ UNCHANGED wallet
  <2>1. StoreStep BY <1>1, <1>2, <1>8, StoreIdle
  <2>2. "settled" \in Thens BY DEF Thens
  <2>3. PICK c \in Task : /\ task' = [task EXCEPT ![t] = c] /\ c.pc = "retire_prepare"
                          /\ c.id = id /\ c.then = "settled"
    BY <1>1, <1>4, <1>8, <2>2, RetireBecomes
  <2>4. CallIsFormed(c)' /\ CallIsCovered(c)'
    BY <1>2, <1>4, <2>3 DEF CallIsFormed, CallIsCovered, Issuing, RetirePcs, PlanPcs, ReadPcs
  <2>5. MayHold(t, c)
    BY <1>5, <2>3 DEF MayHold, Slots, Reads, Writes, ReadPcs, RetirePcs
  <2> QED BY <1>2, <1>8, <2>1, <2>3, <2>4, <2>5, QuietStep
<1>9. CASE Goto(t, "settle_recover") /\ NoFault /\ UNCHANGED wallet
  <2>1. StoreStep BY <1>1, <1>2, <1>9, StoreIdle
  <2>2. "settle_recover" \in Pcs BY DEF Pcs, WritePcs
  <2>3. PICK c \in Task : task' = [task EXCEPT ![t] = c] /\ c.pc = "settle_recover"
    BY <1>1, <1>9, <2>2, GotoBecomes
  <2>4. CallIsFormed(c)' /\ CallIsCovered(c)'
    BY <2>3 DEF CallIsFormed, CallIsCovered, Issuing, RetirePcs, PlanPcs, ReadPcs
  <2>5. MayHold(t, c)
    BY <1>5, <2>3 DEF MayHold, Slots, Reads, ReadPcs, RetirePcs
  <2> QED BY <1>2, <1>9, <2>1, <2>3, <2>4, <2>5, QuietStep
<1> QED BY <1>6, <1>7, <1>8, <1>9 DEF find_direct_lease_for_withdrawal

\* SettleRecover installs a settled request and returns.
LEMMA SettleRecover_Inv ==
  ASSUME ClientInv, NEW t \in Tasks, SettleRecover(t)
  PROVE  ClientInv'
<1>1. UNCHANGED <<mode, requests, lease, vault, planVars, serverVars>> /\ Return(t)
      /\ (NoFault \/ Fault) /\ (wallet' = wallet \/ wallet' = Recovered)
  BY DEF SettleRecover
<1>2. StoreStep BY <1>1, Parts, StoreIdle, StoreRecovers
<1> QED BY <1>1, <1>2, ReturnStep

-----------------------------------------------------------------------------
(* create_withdrawal *)

\* create_withdrawal returns the plan there is, or begins to prepare one.
LEMMA create_withdrawal_Inv ==
  ASSUME ClientInv, NEW t \in Tasks, NEW m \in {"mutual", "escape"}, NEW d \in Destinations,
         create_withdrawal(t, m, d)
  PROVE  ClientInv'
<1>1. StoreOK /\ PlansOK /\ KeyOK /\ CallsOK /\ FaultsOK BY Parts
<1>2. UNCHANGED <<mode, wallet, requests, plan, planFile, lease, vault, faults, serverVars>>
  BY DEF create_withdrawal
<1>3. StoreStep BY <1>1, <1>2, StoreIdle
<1>4. CASE plan # NoPlan /\ handed' = handed \cup {plan} /\ UNCHANGED task
  <2>1. handed' \in SUBSET Plan BY <1>1, <1>4 DEF PlansOK
  <2>2. PlansOK'
    BY <1>1, <1>2, <2>1 DEF PlansOK, Binding, serverVars
  <2>3. KeyOK' BY <1>1, <1>2, <1>3, KeyKept DEF StoreStep
  <2>4. CallsOK' BY <1>1, <1>2, <1>3, <1>4, CallsKept
  <2> QED BY <1>1, <1>2, <1>3, <2>2, <2>3, <2>4, PartsNext DEF StoreStep, FaultsOK
<1>5. CASE /\ task' = [task EXCEPT ![t] = [Idle EXCEPT !.pc = "reconcile",
                         !.plan = [mode |-> m, destination |-> d, coin |-> NoCoin]]]
           /\ UNCHANGED handed
  <2> DEFINE q == [mode |-> m, destination |-> d, coin |-> NoCoin]
  <2> DEFINE c == [Idle EXCEPT !.pc = "reconcile", !.plan = q]
  <2>1. c.pc = "reconcile" /\ c.plan = q BY DEF Idle
  <2>2. q.mode = m /\ q.destination = d OBVIOUS
  <2>3. c \in Task
    <3>1. "reconcile" \in PlanPcs BY DEF PlanPcs
    <3>2. q \in [mode : {"none", "mutual", "escape"}, destination : Destinations \cup {NoDestination},
                 coin : Coin \cup {NoCoin}]
      OBVIOUS
    <3> HIDE DEF q
    <3> QED BY <3>1, <3>2, IdleCall DEF Task, Idle
  <2>4. task' = [task EXCEPT ![t] = c] BY <1>5
  <2> HIDE DEF q, c
  <2>5. CallIsFormed(c)' /\ CallIsCovered(c)'
    BY <2>1, <2>2 DEF CallIsFormed, CallIsCovered, Issuing, RetirePcs, ReadPcs
  <2>6. MayHold(t, c)
    BY <2>1 DEF MayHold, Slots, Reads, Writes, ReadPcs, WritePcs, RetirePcs
  <2> QED BY <1>2, <1>3, <1>5, <2>1, <2>3, <2>4, <2>5, <2>6, QuietStep DEF NoFault, planVars
<1> QED BY <1>4, <1>5 DEF create_withdrawal

\* The call that prepares a plan goes on with it.
LEMMA PlanStep ==
  ASSUME ClientInv, NEW t \in Tasks, task[t].pc \in PlanPcs, NEW p \in {"check_lease", "prove"},
         Goto(t, p)
  PROVE  \E c \in Task : /\ task' = [task EXCEPT ![t] = c] /\ c.pc = p
                         /\ MayHold(t, c) /\ CallIsFormed(c)' /\ CallIsCovered(c)'
<1>1. CallsOK /\ CallIsFormed(task[t]) BY Parts, CallTypes
<1>2. p \in Pcs BY DEF Pcs, PlanPcs
<1>3. PICK c \in Task : task' = [task EXCEPT ![t] = c] /\ c.pc = p /\ c.plan = task[t].plan
  BY <1>1, <1>2, GotoBecomes
<1>4. CallIsFormed(c)' /\ CallIsCovered(c)'
  BY <1>1, <1>3 DEF CallIsFormed, CallIsCovered, Issuing, RetirePcs, ReadPcs
<1>5. MayHold(t, c)
  BY <1>3 DEF MayHold, Slots, Reads, Writes, ReadPcs, WritePcs, RetirePcs
<1> QED BY <1>3, <1>4, <1>5

\* WithdrawReconcile forgets the key only under the exclusive lock.
LEMMA WithdrawReconcile_Inv ==
  ASSUME ClientInv, NEW t \in Tasks, WithdrawReconcile(t)
  PROVE  ClientInv'
<1>1. StoreOK /\ CallsOK BY Parts
<1>2. task[t].pc \in PlanPcs /\ Goto(t, "check_lease") /\ (NoFault \/ Fault)
      /\ UNCHANGED <<mode, requests, vault, planVars, serverVars>>
  BY DEF WithdrawReconcile, At, PlanPcs
<1>3. PICK c \in Task : /\ task' = [task EXCEPT ![t] = c] /\ c.pc = "check_lease"
                        /\ MayHold(t, c) /\ CallIsFormed(c)' /\ CallIsCovered(c)'
  BY <1>2, PlanStep
<1>4. CASE CanWrite(t) /\ Reconciled
  <2>1. wallet' = Recovered /\ (lease' = lease \/ lease' = NoLease) BY <1>4 DEF Reconciled
  <2>2. StoreStep BY <1>1, <1>2, <2>1, StoreRecovers
  <2>3. KeyMoves(t) BY <1>4, <2>1, CanWriteExcludes DEF KeyMoves
  <2> QED BY <1>2, <1>3, <2>1, <2>2, <2>3, KeyStep
<1>5. CASE UNCHANGED <<wallet, lease>>
  <2>1. StoreStep BY <1>1, <1>2, <1>5, StoreIdle
  <2> QED BY <1>2, <1>3, <1>5, <2>1, QuietStep
<1> QED BY <1>4, <1>5 DEF WithdrawReconcile

\* CheckNoLease goes on without a key in memory, or returns.
LEMMA CheckNoLease_Inv ==
  ASSUME ClientInv, NEW t \in Tasks, CheckNoLease(t)
  PROVE  ClientInv'
<1>1. task[t].pc \in PlanPcs /\ UNCHANGED <<mode, wallet, requests, lease, vault, faults, planVars, serverVars>>
  BY DEF CheckNoLease, At, PlanPcs
<1>2. StoreStep /\ NoFault BY <1>1, Parts, StoreIdle DEF NoFault
<1>3. CASE Return(t) BY <1>1, <1>2, <1>3, ReturnStep
<1>4. CASE Goto(t, "prove")
  <2>1. PICK c \in Task : /\ task' = [task EXCEPT ![t] = c] /\ c.pc = "prove"
                          /\ MayHold(t, c) /\ CallIsFormed(c)' /\ CallIsCovered(c)'
    BY <1>1, <1>4, PlanStep
  <2> QED BY <1>1, <1>2, <2>1, QuietStep
<1> QED BY <1>3, <1>4 DEF CheckNoLease

\* The proved plan is for the wallet's state, which a mutual close has cleared.
LEMMA ProvedBecomes ==
  ASSUME ClientInv, NEW t \in Tasks, task[t].pc = "prove", NEW m \in {"mutual", "escape"},
         Able(t, m), Proved(t),
         UNCHANGED <<wallet, vault>>,
         m = "mutual" => nullifiers'[wallet.coin].status = "clearance_reserved"
  PROVE  \E c \in Task : /\ task' = [task EXCEPT ![t] = c] /\ c.pc = "persist"
                         /\ MayHold(t, c) /\ CallIsFormed(c)' /\ CallIsCovered(c)'
<1>1. StoreOK /\ CallsOK BY Parts
<1>2. task[t] \in Task /\ CallIsFormed(task[t]) BY <1>1, CallTypes
<1>3. wallet.coin \in Coin /\ vault[wallet.coin.note].status = "active"
  BY <1>1 DEF Able, InTree, StoreOK, WalletOK, Wallets
<1>4. PICK q : q = [task[t].plan EXCEPT !.coin = wallet.coin] OBVIOUS
<1>5. task[t].plan.mode = m /\ task[t].plan.destination \in Destinations
  BY <1>2 DEF Able, CallIsFormed, PlanPcs
<1>6. task[t].plan \in [mode : {"none", "mutual", "escape"}, destination : Destinations \cup {NoDestination},
                        coin : Coin \cup {NoCoin}]
  BY <1>2 DEF Task
<1>7. q.mode = m /\ q.destination = task[t].plan.destination /\ q.coin = wallet.coin /\ q \in Plan
      /\ q \in [mode : {"none", "mutual", "escape"}, destination : Destinations \cup {NoDestination},
                coin : Coin \cup {NoCoin}]
  BY <1>3, <1>4, <1>5, <1>6 DEF Plan
<1>8. PICK c : c = [task[t] EXCEPT !.pc = "persist", !.plan = q] OBVIOUS
<1>9. c.pc = "persist" /\ c.plan = q BY <1>2, <1>8 DEF Task
<1>10. c \in Task
  <2>1. "persist" \in PlanPcs BY DEF PlanPcs
  <2> QED BY <1>2, <1>7, <1>8, <2>1 DEF Task
<1>11. task' = [task EXCEPT ![t] = c]
  BY <1>1, <1>4, <1>8 DEF Proved, CallsOK
<1>12. Binding(q)'
  BY <1>3, <1>7 DEF Binding
<1>13. CallIsFormed(c)' /\ CallIsCovered(c)'
  BY <1>5, <1>7, <1>9, <1>12 DEF CallIsFormed, CallIsCovered, Issuing, RetirePcs, ReadPcs
<1>14. MayHold(t, c)
  BY <1>9 DEF MayHold, Slots, Reads, Writes, ReadPcs, WritePcs, RetirePcs
<1> QED BY <1>9, <1>10, <1>11, <1>13, <1>14

\* Prove clears the state of a mutual close before its plan is kept.
LEMMA Prove_Inv ==
  ASSUME ClientInv, NEW t \in Tasks, Prove(t)
  PROVE  ClientInv'
<1>1. StoreOK BY Parts
<1>2. task[t].pc = "prove" /\ UNCHANGED <<mode, wallet, requests, lease, leases, expired, vault, planVars>>
  BY DEF Prove, At
<1>3. CASE Able(t, "escape") /\ Proved(t) /\ NoFault /\ UNCHANGED nullifiers
  <2>1. StoreStep BY <1>1, <1>2, <1>3, StoreIdle DEF serverVars
  <2>2. PICK c \in Task : /\ task' = [task EXCEPT ![t] = c] /\ c.pc = "persist"
                          /\ MayHold(t, c) /\ CallIsFormed(c)' /\ CallIsCovered(c)'
    BY <1>2, <1>3, ProvedBecomes
  <2> QED BY <1>2, <1>3, <2>1, <2>2, QuietStep
<1>4. CASE Able(t, "mutual") /\ ClearanceReserved /\ ((Proved(t) /\ NoFault) \/ (Return(t) /\ Fault))
  <2>1. wallet.coin # NoCoin /\ wallet.pending = 0 BY <1>4 DEF Able, InTree
  <2>2. StoreStep /\ nullifiers'[wallet.coin].status = "clearance_reserved"
    BY <1>1, <1>2, <1>4, <2>1, StoreIsCleared
  <2>3. CASE Return(t) /\ Fault BY <1>2, <2>2, <2>3, ReturnStep
  <2>4. CASE Proved(t) /\ NoFault
    <3>1. PICK c \in Task : /\ task' = [task EXCEPT ![t] = c] /\ c.pc = "persist"
                            /\ MayHold(t, c) /\ CallIsFormed(c)' /\ CallIsCovered(c)'
      BY <1>2, <1>4, <2>2, <2>4, ProvedBecomes
    <3> QED BY <1>2, <2>2, <2>4, <3>1, QuietStep
  <2> QED BY <1>4, <2>3, <2>4
<1>5. CASE Return(t) /\ (NoFault \/ Fault) /\ UNCHANGED nullifiers
  <2>1. StoreStep BY <1>1, <1>2, <1>5, StoreIdle DEF serverVars
  <2> QED BY <1>2, <1>5, <2>1, ReturnStep
<1> QED BY <1>3, <1>4, <1>5 DEF Prove, ProofFails

\* InstallPlan keeps the proved plan, in memory and on disk.
LEMMA InstallPlan_Inv ==
  ASSUME ClientInv, NEW t \in Tasks, InstallPlan(t)
  PROVE  ClientInv'
<1>1. StoreOK /\ PlansOK /\ KeyOK /\ CallsOK /\ FaultsOK BY Parts
<1> PICK p : p = task[t].plan OBVIOUS
<1> PICK q : q = planFile OBVIOUS
<1>2. /\ task[t].pc = "persist" /\ Return(t) /\ plan' = p /\ (NoFault \/ Fault)
      /\ planFile' = p \/ planFile' = q
      /\ handed' = handed \/ handed' = handed \cup {p}
      /\ UNCHANGED <<mode, wallet, requests, lease, vault, serverVars>>
  BY DEF InstallPlan, At, persist_prepared_withdrawal
<1>3. StoreStep BY <1>1, <1>2, StoreIdle
<1>4. p \in Plan /\ Binding(p) BY <1>1, <1>2, CallTypes DEF CallIsFormed, CallIsCovered
<1>5. q \in Plan \cup {NoPlan} /\ Binding(q) BY <1>1 DEF PlansOK
<1>6. Binding(p)' /\ Binding(q)' BY <1>1, <1>3, <1>4, <1>5, BindingKept DEF StoreStep
<1>7. Binding(plan)' /\ Binding(planFile)' BY <1>2, <1>6 DEF Binding
<1>8. PlansOK' BY <1>1, <1>2, <1>4, <1>5, <1>7 DEF PlansOK
<1>9. KeyOK' BY <1>1, <1>2, <1>3, KeyKept DEF StoreStep
<1>10. KeyMoves(t) /\ JournalMoves(t) BY <1>2, <1>3 DEF KeyMoves, JournalMoves, StoreStep
<1>11. task' = [task EXCEPT ![t] = Idle] BY <1>2 DEF Return
<1>12. CallsOK' BY <1>1, <1>3, <1>10, <1>11, IdleCall, CallStep DEF StoreStep
<1> QED BY <1>1, <1>2, <1>3, <1>8, <1>9, <1>12, FaultsKept, PartsNext DEF StoreStep

-----------------------------------------------------------------------------
(* confirm_withdrawal and reset_wallet *)

\* onchain_withdrawal_status goes on to forget a note only when it is closed.
LEMMA onchain_withdrawal_status_Inv ==
  ASSUME ClientInv, NEW t \in Tasks, onchain_withdrawal_status(t)
  PROVE  ClientInv'
<1>1. StoreOK /\ CallsOK BY Parts
<1>2. task[t].pc = "chain" /\ UNCHANGED <<mode, wallet, requests, lease, vault, planVars, serverVars>>
      /\ (NoFault \/ Fault)
  BY DEF onchain_withdrawal_status, At
<1>3. StoreStep BY <1>1, <1>2, StoreIdle
<1>4. wallet.coin = NoCoin \/ wallet.coin.note = task[t].note
  BY <1>1, <1>2, CallTypes DEF CallIsCovered
<1>5. CASE Return(t) BY <1>2, <1>3, <1>5, ReturnStep
<1>6. ASSUME NEW p \in {"closed", "reopened"}, Goto(t, p),
             p = "closed" => vault[task[t].note].status = "closed"
      PROVE  ClientInv'
  <2>1. p \in Pcs BY DEF Pcs, OtherPcs
  <2>2. PICK c \in Task : task' = [task EXCEPT ![t] = c] /\ c.pc = p
    BY <1>1, <1>6, <2>1, GotoBecomes
  <2>3. p = "closed" => wallet.coin = NoCoin \/ vault[wallet.coin.note].status = "closed"
    BY <1>4, <1>6
  <2>4. CallIsFormed(c)' /\ CallIsCovered(c)'
    BY <1>2, <2>2, <2>3 DEF CallIsFormed, CallIsCovered, Issuing, RetirePcs, PlanPcs, ReadPcs
  <2>5. MayHold(t, c)
    BY <2>2 DEF MayHold, Slots, Reads, Writes, ReadPcs, WritePcs, RetirePcs
  <2> QED BY <1>2, <1>3, <2>2, <2>4, <2>5, QuietStep
<1> QED BY <1>5, <1>6 DEF onchain_withdrawal_status, vault_eth_call

\* Forgetting a plan keeps the plans in order.
LEMMA PlansShrink ==
  ASSUME StoreOK, StoreOK', Grows, Moves, PlansOK, UNCHANGED handed,
         plan' = plan \/ plan' = NoPlan, planFile' = planFile \/ planFile' = NoPlan
  PROVE  PlansOK'
<1> PICK p : p = plan OBVIOUS
<1> PICK q : q = planFile OBVIOUS
<1>1. p \in Plan \cup {NoPlan} /\ q \in Plan \cup {NoPlan} /\ Binding(p) /\ Binding(q)
  BY DEF PlansOK
<1>2. Binding(p)' /\ Binding(q)' BY <1>1, BindingKept
<1>3. Binding(NoPlan)' BY DEF Binding, NoPlan
<1>4. Binding(plan)' /\ Binding(planFile)' BY <1>2, <1>3 DEF Binding
<1> QED BY <1>1, <1>4 DEF PlansOK

\* A step of call t that may forget a plan and leaves the key alone.
LEMMA ForgetStep ==
  ASSUME ClientInv, StoreStep, UNCHANGED <<lease, handed>>, NoFault \/ Fault,
         plan' = plan \/ plan' = NoPlan, planFile' = planFile \/ planFile' = NoPlan,
         NEW t \in Tasks, NEW c \in Task, task' = [task EXCEPT ![t] = c], c.pc # "infer",
         MayHold(t, c), CallIsFormed(c)', CallIsCovered(c)'
  PROVE  ClientInv'
<1>1. StoreOK /\ PlansOK /\ KeyOK /\ CallsOK /\ FaultsOK BY Parts
<1>2. StoreOK' /\ Grows /\ Moves /\ JournalKept BY DEF StoreStep
<1>3. PlansOK' BY <1>1, <1>2, PlansShrink
<1>4. KeyOK' BY <1>1, <1>2, KeyKept
<1>5. KeyMoves(t) /\ JournalMoves(t) BY <1>2 DEF KeyMoves, JournalMoves
<1>6. CallsOK' BY <1>1, <1>2, <1>5, CallStep
<1> QED BY <1>1, <1>2, <1>3, <1>4, <1>6, FaultsKept, PartsNext

\* ForgetPlan forgets the plan of a closed note.
LEMMA ForgetPlan_Inv ==
  ASSUME ClientInv, NEW t \in Tasks, ForgetPlan(t)
  PROVE  ClientInv'
<1>1. StoreOK /\ CallsOK BY Parts
<1>2. plan' = NoPlan /\ task[t].pc \in {"closed", "forget"}
      /\ UNCHANGED <<mode, wallet, requests, planFile, handed, lease, vault, faults, serverVars>>
  BY DEF ForgetPlan, At
<1>3. StoreStep BY <1>1, <1>2, StoreIdle
<1>4. PICK p \in {"closed_lease", "forget_lease"} : Goto(t, p) BY DEF ForgetPlan
<1>5. p \in Pcs BY DEF Pcs, OtherPcs
<1>6. PICK c \in Task : task' = [task EXCEPT ![t] = c] /\ c.pc = p
  BY <1>1, <1>4, <1>5, GotoBecomes
<1>7. wallet.coin = NoCoin \/ vault[wallet.coin.note].status = "closed"
  BY <1>1, <1>2, CallTypes DEF CallIsCovered
<1>8. CallIsFormed(c)' /\ CallIsCovered(c)'
  BY <1>2, <1>6, <1>7 DEF CallIsFormed, CallIsCovered, Issuing, RetirePcs, PlanPcs, ReadPcs
<1>9. MayHold(t, c)
  BY <1>6 DEF MayHold, Slots, Reads, Writes, ReadPcs, WritePcs, RetirePcs
<1> QED BY <1>2, <1>3, <1>6, <1>8, <1>9, ForgetStep DEF NoFault

\* ForgetLease forgets the key of a closed note, which a call may still use.
LEMMA ForgetLease_Inv ==
  ASSUME ClientInv, NEW t \in Tasks, ForgetLease(t)
  PROVE  ClientInv'
<1>1. StoreOK /\ CallsOK /\ KeyOK BY Parts
<1>2. SlotFree /\ lease' = NoLease /\ task[t].pc \in {"closed_lease", "forget_lease"}
      /\ UNCHANGED <<mode, wallet, requests, vault, faults, planVars, serverVars>>
  BY DEF ForgetLease, At
<1>3. StoreStep BY <1>1, <1>2, StoreIdle
<1>4. wallet.coin = NoCoin \/ vault[wallet.coin.note].status = "closed"
  BY <1>1, <1>2, CallTypes DEF CallIsCovered
<1>5. lease # NoLease => NoteClosed(lease.id)
  <2> SUFFICES ASSUME lease # NoLease PROVE NoteClosed(lease.id)
    OBVIOUS
  <2>1. lease.id \in DOMAIN requests
        /\ (NoteClosed(lease.id) \/ requests[lease.id].coin.note = wallet.coin.note)
    BY <1>1 DEF KeyOK, KeyIsLeased
  <2>2. requests[lease.id].coin.note # 0 BY <1>1, <2>1, RequestTypes, Coins DEF StoreOK
  <2> QED BY <1>4, <2>1, <2>2, Coins DEF NoteClosed
<1>6. KeyMoves(t)
  <2>1. \A u \in Tasks : ~Slots(task[u]) BY <1>2, LocksOfCalls DEF SlotFree
  <2> QED BY <1>2, <1>5, <2>1 DEF KeyMoves
<1>7. CASE Return(t)
  <2>1. task' = [task EXCEPT ![t] = Idle] BY <1>7 DEF Return
  <2> QED BY <1>2, <1>3, <1>6, <2>1, IdleCall, KeyStep DEF NoFault
<1>8. CASE Goto(t, "reset")
  <2>1. "reset" \in Pcs BY DEF Pcs, OtherPcs
  <2>2. PICK c \in Task : task' = [task EXCEPT ![t] = c] /\ c.pc = "reset"
    BY <1>1, <1>8, <2>1, GotoBecomes
  <2>3. CallIsFormed(c)' /\ CallIsCovered(c)'
    BY <1>2, <1>4, <2>2 DEF CallIsFormed, CallIsCovered, Issuing, RetirePcs, PlanPcs, ReadPcs
  <2>4. MayHold(t, c)
    BY <2>2 DEF MayHold, Slots, Reads, Writes, ReadPcs, WritePcs, RetirePcs
  <2> QED BY <1>2, <1>3, <1>6, <2>2, <2>3, <2>4, KeyStep DEF NoFault
<1> QED BY <1>7, <1>8 DEF ForgetLease

\* ConfirmActive forgets a challenged escape.
LEMMA ConfirmActive_Inv ==
  ASSUME ClientInv, NEW t \in Tasks, ConfirmActive(t)
  PROVE  ClientInv'
<1>1. /\ UNCHANGED <<mode, wallet, requests, lease, handed, vault, serverVars>> /\ Return(t)
      /\ NoFault \/ Fault
      /\ plan' = plan \/ plan' = NoPlan
      /\ planFile' = planFile \/ planFile' = NoPlan
  BY DEF ConfirmActive
<1>2. StoreStep BY <1>1, Parts, StoreIdle
<1>3. task' = [task EXCEPT ![t] = Idle] BY <1>1 DEF Return
<1> QED BY <1>1, <1>2, <1>3, IdleCall, ForgetStep

\* reset_wallet forgets the note, which is closed.
LEMMA reset_wallet_Inv ==
  ASSUME ClientInv, NEW t \in Tasks, reset_wallet(t)
  PROVE  ClientInv'
<1>1. StoreOK /\ CallsOK BY Parts
<1>2. /\ task[t].pc = "reset" /\ wallet' = [coin |-> NoCoin, pending |-> 0] /\ planFile' = NoPlan
      /\ Goto(t, "forget")
      /\ UNCHANGED <<mode, requests, plan, handed, lease, vault, faults, serverVars>>
  BY DEF reset_wallet, At
<1>3. wallet.coin = NoCoin \/ vault[wallet.coin.note].status = "closed"
  BY <1>1, <1>2, CallTypes DEF CallIsCovered
<1>4. wallet' \in Wallets /\ wallet'.coin = NoCoin /\ wallet'.pending = 0 BY <1>2 DEF Wallets
<1>5. StoreOK' /\ Grows /\ JournalKept BY <1>1, <1>2, <1>4, StoreForgets
<1>6. Moves BY <1>3, <1>4 DEF Moves
<1>7. StoreStep BY <1>5, <1>6 DEF StoreStep
<1>8. "forget" \in Pcs BY DEF Pcs, OtherPcs
<1>9. PICK c \in Task : task' = [task EXCEPT ![t] = c] /\ c.pc = "forget"
  BY <1>1, <1>2, <1>8, GotoBecomes
<1>10. CallIsFormed(c)' /\ CallIsCovered(c)'
  BY <1>4, <1>9 DEF CallIsFormed, CallIsCovered, Issuing, RetirePcs, PlanPcs, ReadPcs
<1>11. MayHold(t, c)
  BY <1>9 DEF MayHold, Slots, Reads, Writes, ReadPcs, WritePcs, RetirePcs
<1> QED BY <1>2, <1>7, <1>9, <1>10, <1>11, ForgetStep DEF NoFault

-----------------------------------------------------------------------------
(* The ticker, the server, the vault, deposits and restarts *)

\* reconcile_direct_openrouter forgets the settled key once no call uses it.
LEMMA reconcile_direct_openrouter_Inv ==
  ASSUME ClientInv, reconcile_direct_openrouter
  PROVE  ClientInv'
<1>1. StoreOK /\ PlansOK /\ KeyOK /\ CallsOK /\ FaultsOK BY Parts
<1>2. /\ \A t \in Tasks : CanWrite(t)
      /\ wallet' = Recovered
      /\ lease' = lease \/ lease' = NoLease
      /\ UNCHANGED <<mode, requests, task, vault, faults, planVars, serverVars>>
  BY DEF reconcile_direct_openrouter, Reconciled
<1>3. StoreStep BY <1>1, <1>2, StoreRecovers
<1>4. \A u \in Tasks : ~Reads(task[u]) BY <1>2, CanWriteExcludes
<1>5. CallsOK' BY <1>1, <1>2, <1>3, <1>4, CallsKept
<1>6. KeyOK' BY <1>1, <1>2, <1>3, KeyKept DEF StoreStep
<1>7. PlansOK' BY <1>1, <1>2, <1>3, PlansKept DEF StoreStep
<1> QED BY <1>1, <1>2, <1>3, <1>5, <1>6, <1>7, PartsNext DEF StoreStep, FaultsOK

\* VaultStep moves a deposited note, and never one that is closed.
LEMMA VaultStep_Inv ==
  ASSUME ClientInv, NEW n \in Notes, VaultStep(n)
  PROVE  ClientInv'
<1>1. StoreOK /\ PlansOK BY Parts
<1>2. UNCHANGED <<mode, wallet, requests, lease, task, faults, planVars, serverVars>>
  BY DEF VaultStep
<1>3. PICK r \in [status : {"active", "pending_withdrawal", "closed"}, coin : Coin \cup {NoCoin}] :
        vault[n].status \notin {"none", "closed"} /\ vault' = [vault EXCEPT ![n] = r]
  <2>1. ASSUME NEW p \in handed, vault[n].status = "active",
               vault' = [vault EXCEPT ![n] =
                 IF p.mode = "mutual" THEN [status |-> "closed", coin |-> NoCoin]
                                      ELSE [status |-> "pending_withdrawal", coin |-> p.coin]]
        PROVE  \E r \in [status : {"active", "pending_withdrawal", "closed"}, coin : Coin \cup {NoCoin}] :
                 vault[n].status \notin {"none", "closed"} /\ vault' = [vault EXCEPT ![n] = r]
    <3>1. PICK r : r = IF p.mode = "mutual" THEN [status |-> "closed", coin |-> NoCoin]
                                            ELSE [status |-> "pending_withdrawal", coin |-> p.coin]
      OBVIOUS
    <3>2. p.coin \in Coin BY <1>1 DEF PlansOK, Plan
    <3>3. r \in [status : {"active", "pending_withdrawal", "closed"}, coin : Coin \cup {NoCoin}]
      BY <3>1, <3>2
    <3>4. vault' = [vault EXCEPT ![n] = r] BY <2>1, <3>1
    <3> QED BY <2>1, <3>3, <3>4
  <2>2. ASSUME NEW s \in {"active", "closed"}, vault[n].status = "pending_withdrawal",
               vault' = [vault EXCEPT ![n] = [status |-> s, coin |-> NoCoin]]
        PROVE  \E r \in [status : {"active", "pending_withdrawal", "closed"}, coin : Coin \cup {NoCoin}] :
                 vault[n].status \notin {"none", "closed"} /\ vault' = [vault EXCEPT ![n] = r]
    <3>1. [status |-> s, coin |-> NoCoin]
            \in [status : {"active", "pending_withdrawal", "closed"}, coin : Coin \cup {NoCoin}]
      OBVIOUS
    <3> QED BY <2>2, <3>1
  <2> QED BY <2>1, <2>2 DEF VaultStep
<1>4. StoreStep BY <1>1, <1>2, <1>3, StoreOnChain
<1> QED BY <1>2, <1>4, QuietEnvironment

\* KeyExpires adds to the expired leases.
LEMMA KeyExpires_Inv ==
  ASSUME ClientInv, NEW id \in Ids, KeyExpires(id)
  PROVE  ClientInv'
<1>1. StoreOK BY Parts
<1>2. /\ expired' = expired \cup {id}
      /\ UNCHANGED <<mode, wallet, requests, lease, task, nullifiers, leases, vault, faults, planVars>>
  BY DEF KeyExpires
<1>3. StoreOK'
  BY <1>1, <1>2 DEF StoreOK, ServerTypes, WalletOK, RequestsOK, RowsAnswerRequests, Row
<1>4. Grows BY <1>2 DEF Grows
<1>5. Moves /\ JournalKept BY <1>2 DEF Moves, JournalKept
<1>6. StoreStep BY <1>3, <1>4, <1>5 DEF StoreStep
<1> QED BY <1>2, <1>6, QuietEnvironment

\* ServerSettles settles an expired lease.
LEMMA ServerSettles_Inv ==
  ASSUME ClientInv, NEW id \in Ids, ServerSettles(id)
  PROVE  ClientInv'
<1>1. /\ leases[id] # "none" /\ Settled(id)
      /\ UNCHANGED <<mode, wallet, requests, lease, task, expired, vault, faults, planVars>>
  BY DEF ServerSettles
<1>2. StoreStep BY <1>1, Parts, StoreSettles
<1> QED BY <1>1, <1>2, QuietEnvironment

\* ServerFinishes finishes an accepted proxied request.
LEMMA ServerFinishes_Inv ==
  ASSUME ClientInv, NEW id \in Ids, ServerFinishes(id)
  PROVE  ClientInv'
<1>1. /\ id <= Len(requests) /\ Row(id).id = id /\ Row(id).status = "reserved"
      /\ nullifiers' = [nullifiers EXCEPT ![requests[id].coin].status = "finalized"]
      /\ UNCHANGED <<mode, wallet, requests, lease, task, leases, expired, vault, faults, planVars>>
  BY DEF ServerFinishes
<1>2. id \in DOMAIN requests
  BY <1>1, Parts, RequestTypes, ClientAssumption DEF StoreOK, Ids
<1>3. StoreStep BY <1>1, <1>2, Parts, StoreFinishes
<1> QED BY <1>1, <1>3, QuietEnvironment

\* confirm_deposit installs a new note, which no request, plan or key is about.
LEMMA confirm_deposit_Inv ==
  ASSUME ClientInv, NEW n \in Notes, confirm_deposit(n)
  PROVE  ClientInv'
<1>1. StoreOK /\ PlansOK /\ KeyOK /\ CallsOK /\ FaultsOK BY Parts
<1>2. /\ wallet.coin = NoCoin /\ vault[n].status = "none"
      /\ \A t \in Tasks : task[t].pc = "idle"
      /\ vault' = [vault EXCEPT ![n].status = "active"]
      /\ wallet' = [wallet EXCEPT !.coin = [note |-> n, state |-> 0]]
      /\ UNCHANGED <<mode, requests, lease, task, faults, planVars, serverVars>>
  BY DEF confirm_deposit, At
<1>3. UNCHANGED <<nullifiers, leases, expired, plan, planFile, handed>> BY <1>2 DEF planVars, serverVars
<1>4. /\ vault' \in [Notes -> [status : {"none", "active", "pending_withdrawal", "closed"},
                              coin : Coin \cup {NoCoin}]]
      /\ vault'[n].status = "active"
      /\ \A m \in Notes : m # n => vault'[m] = vault[m]
  BY <1>1, <1>2 DEF StoreOK, ServerTypes
<1>5. \A m \in Notes : vault[m].status # "none" => m # n /\ vault'[m] = vault[m]
  BY <1>2, <1>4
<1>6. \A i \in DOMAIN requests : requests[i].coin.note \in Notes /\ requests[i].coin.note # n
                                 /\ requests[i].coin.note # 0
  BY <1>1, <1>5, RequestTypes, Coins DEF StoreOK, RequestsOK
<1>7. PICK d : d = [note |-> n, state |-> 0] OBVIOUS
<1>8. d \in Coin /\ d.note = n /\ d.state = 0
  <2>1. 0 \in 0..MaxState BY ClientAssumption
  <2> QED BY <1>7, <2>1 DEF Coin
<1>9. wallet'.coin = d /\ wallet'.pending = 0 /\ wallet' \in Wallets
  <2>1. WalletOK(wallet) /\ wallet \in Wallets BY <1>1 DEF StoreOK, WalletOK
  <2>2. wallet.pending = 0 BY <1>2, <2>1 DEF WalletOK
  <2>3. wallet' = [wallet EXCEPT !.coin = d] BY <1>2, <1>7
  <2> QED BY <1>8, <2>1, <2>2, <2>3 DEF Wallets
<1>10. StoreOK'
  <2>1. ServerTypes' /\ RowsAnswerRequests'
    BY <1>1, <1>2, <1>3, <1>4 DEF StoreOK, ServerTypes, RowsAnswerRequests, Row
  <2>2. RequestsOK' BY <1>1, <1>2, <1>4, <1>6 DEF StoreOK, RequestsOK
  <2>3. nullifiers[d].status \notin {"reserved", "finalized"}
    BY <1>1, <1>6, <1>8 DEF StoreOK, RowsAnswerRequests
  <2>4. WalletOK(wallet)'
    BY <1>2, <1>3, <1>4, <1>6, <1>8, <1>9, <2>3 DEF WalletOK
  <2> QED BY <2>1, <2>2, <2>4 DEF StoreOK
<1>11. PlansOK'
  <2>1. ASSUME NEW p \in Plan \cup {NoPlan}, Binding(p) PROVE Binding(p)'
    <3>1. CASE p = NoPlan BY <3>1 DEF Binding, NoPlan
    <3>2. CASE p \in Plan
      <4>1. p.coin \in Coin /\ p.coin.note \in Notes /\ p.mode # "none" BY <3>2, Coins DEF Plan
      <4>2. vault[p.coin.note].status # "none" BY <2>1, <4>1 DEF Binding
      <4>3. p.coin.note # n /\ vault'[p.coin.note] = vault[p.coin.note] BY <1>5, <4>1, <4>2
      <4> QED BY <1>3, <1>8, <1>9, <2>1, <4>1, <4>2, <4>3 DEF Binding
    <3> QED BY <3>1, <3>2, <2>1
  <2> PICK p : p = plan OBVIOUS
  <2> PICK q : q = planFile OBVIOUS
  <2>2. Binding(p)' /\ Binding(q)' BY <1>1, <2>1 DEF PlansOK
  <2>3. Binding(plan)' /\ Binding(planFile)' BY <1>3, <2>2 DEF Binding
  <2> QED BY <1>1, <1>3, <2>3 DEF PlansOK
<1>12. KeyOK'
  <2>1. lease' = NoLease => KeyOK' BY DEF KeyOK, KeyIsLeased
  <2>2. ASSUME lease # NoLease PROVE KeyOK'
    <3>1. lease.id \in DOMAIN requests /\ leases[lease.id] # "none"
          /\ (vault[requests[lease.id].coin.note].status = "closed"
              \/ requests[lease.id].coin.note = wallet.coin.note)
      BY <1>1, <2>2 DEF KeyOK, KeyIsLeased, NoteClosed
    <3>2. vault[requests[lease.id].coin.note].status = "closed"
      BY <1>2, <1>6, <3>1, Coins
    <3>3. vault'[requests[lease.id].coin.note].status = "closed"
      BY <1>5, <1>6, <3>1, <3>2
    <3> QED BY <1>1, <1>2, <1>3, <2>2, <3>1, <3>3 DEF KeyOK, KeyIsLeased, NoteClosed
  <2> QED BY <1>2, <2>1, <2>2
<1>13. CallsOK'
  <2>1. \A t \in Tasks : task'[t] = task[t] /\ task[t].pc = "idle" BY <1>2
  <2>2. \A t \in Tasks : CallIsFormed(task[t])' /\ CallIsCovered(task[t])'
    BY <2>1 DEF CallIsFormed, CallIsCovered, Issuing, RetirePcs, PlanPcs, ReadPcs
  <2>3. LocksExclude'
    BY <1>1, <1>2 DEF CallsOK, LocksExclude, HoldsSlot, HoldsRead, HoldsWrite
  <2>4. KeyServesOneSession' BY <2>1 DEF KeyServesOneSession, At
  <2> QED BY <1>1, <1>2, <2>2, <2>3, <2>4 DEF CallsOK
<1> QED BY <1>1, <1>2, <1>10, <1>11, <1>12, <1>13, PartsNext DEF FaultsOK

\* Without calls in progress the calls are in order.
LEMMA NoCalls ==
  ASSUME task' = [t \in Tasks |-> Idle]
  PROVE  CallsOK'
<1>1. \A t \in Tasks : task'[t] = Idle OBVIOUS
<1>2. task' \in [Tasks -> Task] BY IdleCall
<1>3. \A t \in Tasks : CallIsFormed(task[t])' /\ CallIsCovered(task[t])'
  BY <1>1, IdleCall DEF CallIsFormed, CallIsCovered, Issuing, Binding
<1>4. LocksExclude'
  BY <1>1, IdleCall DEF LocksExclude, HoldsSlot, HoldsRead, HoldsWrite, Reads, Writes, Slots
<1>5. KeyServesOneSession' BY <1>1, IdleCall DEF KeyServesOneSession, At
<1> QED BY <1>2, <1>3, <1>4, <1>5 DEF CallsOK

\* Restart forgets the calls and the key, and reads the plan from its file.
LEMMA Restart_Inv ==
  ASSUME ClientInv, Restart
  PROVE  ClientInv'
<1>1. StoreOK /\ PlansOK /\ KeyOK /\ CallsOK /\ FaultsOK BY Parts
<1>2. /\ faults.crashes < MaxCrashes /\ faults' = [faults EXCEPT !.crashes = @ + 1]
      /\ task' = [t \in Tasks |-> Idle] /\ lease' = NoLease
      /\ plan' = planFile /\ planFile' = planFile /\ handed' = handed
      /\ UNCHANGED <<mode, requests, vault, serverVars>>
      /\ wallet' \in {wallet, LowBalanceRetired}
  BY DEF Restart, load_prepared_withdrawal
<1>3. CallsOK' BY <1>2, NoCalls
<1>4. KeyOK' BY <1>2 DEF KeyOK, KeyIsLeased
<1>5. FaultsOK'
  <2>1. faults.crashes + 1 \in 0..MaxCrashes BY <1>1, <1>2, ClientAssumption DEF FaultsOK
  <2> QED BY <1>1, <1>2, <2>1 DEF FaultsOK
<1> PICK q : q = planFile OBVIOUS
<1>6. q \in Plan \cup {NoPlan} /\ Binding(q) BY <1>1 DEF PlansOK
<1>7. CASE wallet' = wallet
  <2>1. StoreStep BY <1>1, <1>2, <1>7, StoreIdle
  <2>2. Binding(q)' BY <1>1, <1>6, <2>1, BindingKept DEF StoreStep
  <2>3. Binding(plan)' /\ Binding(planFile)' BY <1>2, <2>2 DEF Binding
  <2>4. PlansOK' BY <1>1, <1>2, <1>6, <2>3 DEF PlansOK
  <2> QED BY <1>3, <1>4, <1>5, <2>1, <2>4, PartsNext DEF StoreStep
<1>8. CASE wallet' # wallet
  <2>1. wallet' = [wallet EXCEPT !.coin = NoCoin] /\ wallet.pending = 0
    BY <1>2, <1>8 DEF LowBalanceRetired
  <2>2. wallet' \in Wallets /\ wallet'.coin = NoCoin /\ wallet'.pending = 0
    BY <1>1, <2>1 DEF StoreOK, WalletOK, Wallets
  <2>3. StoreOK' /\ Grows BY <1>1, <1>2, <2>2, StoreForgets
  <2>4. Binding(q)'
    <3>1. CASE q = NoPlan BY <3>1 DEF Binding, NoPlan
    <3>2. CASE q \in Plan
      <4>1. q.coin \in Coin /\ q.coin.note # 0 /\ q.mode # "none" BY <3>2, Coins DEF Plan
      <4>2. UNCHANGED <<vault, nullifiers>> BY <1>2 DEF serverVars
      <4> QED BY <1>6, <2>2, <4>1, <4>2, Coins DEF Binding
    <3> QED BY <1>6, <3>1, <3>2
  <2>5. Binding(plan)' /\ Binding(planFile)' BY <1>2, <2>4 DEF Binding
  <2>6. PlansOK' BY <1>1, <1>2, <1>6, <2>5 DEF PlansOK
  <2> QED BY <1>3, <1>4, <1>5, <2>3, <2>6, PartsNext
<1> QED BY <1>7, <1>8

-----------------------------------------------------------------------------
(* The invariant and what follows from it *)

\* The daemon starts in order.
LEMMA InitInv == ClientInit => ClientInv
<1> SUFFICES ASSUME ClientInit PROVE ClientInv
  OBVIOUS
<1> USE DEF ClientInit
<1>1. ServerTypes
  <2>1. requests \in Seq(Requests) /\ Len(requests) = 0 OBVIOUS
  <2>2. MaxRequests \in Nat BY ClientAssumption
  <2> QED BY <2>1, <2>2 DEF ServerTypes
<1>2. DOMAIN requests = {} OBVIOUS
<1>3. WalletOK(wallet) BY <1>2 DEF WalletOK, Wallets
<1>4. RequestsOK /\ RowsAnswerRequests BY <1>2 DEF RequestsOK, RowsAnswerRequests, Row
<1>5. StoreOK BY <1>1, <1>3, <1>4 DEF StoreOK
<1>6. PlansOK BY DEF PlansOK, Binding, NoPlan
<1>7. KeyOK BY DEF KeyOK, KeyIsLeased
<1>8. FaultsOK
  <2>1. 0 \in 0..MaxFaults /\ 0 \in 0..MaxCrashes BY ClientAssumption
  <2> QED BY <2>1 DEF FaultsOK
<1>9. CallsOK
  <2>1. \A t \in Tasks : task[t] = Idle OBVIOUS
  <2>2. task \in [Tasks -> Task] BY IdleCall
  <2>3. \A t \in Tasks : CallIsFormed(task[t]) /\ CallIsCovered(task[t]) BY <2>1, IdleCall
  <2>4. LocksExclude BY <2>1, IdleCall, LocksOfCalls
  <2>5. KeyServesOneSession BY <2>1, IdleCall DEF KeyServesOneSession, At
  <2> QED BY <2>2, <2>3, <2>4, <2>5 DEF CallsOK
<1> QED BY <1>5, <1>6, <1>7, <1>8, <1>9, Parts

\* The arrival of a call keeps the daemon in order.
LEMMA CallInv ==
  ASSUME ClientInv, NEW t \in Tasks, Call(t)
  PROVE  ClientInv'
<1>1. ASSUME NEW s \in Sessions, execute_request_in_session(t, s) PROVE ClientInv'
  BY <1>1, execute_request_in_session_Inv
<1>2. CASE request_submit(t) BY <1>2, request_submit_Inv
<1>3. CASE recover(t) BY <1>3, recover_Inv
<1>4. CASE settle_for_withdrawal(t) BY <1>4, settle_for_withdrawal_Inv
<1>5. ASSUME NEW m \in {"mutual", "escape"}, NEW d \in Destinations, create_withdrawal(t, m, d)
      PROVE  ClientInv'
  BY <1>5, create_withdrawal_Inv
<1>6. CASE confirm_withdrawal(t) BY <1>6, confirm_withdrawal_Inv
<1>7. CASE wallet_reset(t) BY <1>7, wallet_reset_Inv
<1> QED BY <1>1, <1>2, <1>3, <1>4, <1>5, <1>6, <1>7 DEF Call

\* A step of a call in progress keeps the daemon in order.
LEMMA ContinueInv ==
  ASSUME ClientInv, NEW t \in Tasks, Continue(t)
  PROVE  ClientInv'
<1>1. CASE execute_request_demo(t) BY <1>1, execute_request_demo_Inv
<1>2. CASE ensure_direct_openrouter_lease(t) BY <1>2, ensure_direct_openrouter_lease_Inv
<1>3. CASE RecoverBeforeIssue(t) BY <1>3, RecoverBeforeIssue_Inv
<1>4. CASE IssuePrepare(t) BY <1>4, IssuePrepare_Inv
<1>5. CASE issue_direct_openrouter_lease(t) BY <1>5, issue_direct_openrouter_lease_Inv
<1>6. CASE LostKey(t) BY <1>6, LostKey_Inv
<1>7. CASE VerifyKey(t) BY <1>7, VerifyKey_Inv
<1>8. CASE InferenceEnds(t) BY <1>8, InferenceEnds_Inv
<1>9. CASE InferenceFails(t) BY <1>9, InferenceFails_Inv
<1>10. CASE DropRejectedKey(t) BY <1>10, DropRejectedKey_Inv
<1>11. CASE RetirePrepare(t) BY <1>11, RetirePrepare_Inv
<1>12. CASE RetirePost(t) BY <1>12, RetirePost_Inv
<1>13. CASE RetireRecover(t) BY <1>13, RetireRecover_Inv
<1>14. CASE SettlePrepare(t) BY <1>14, SettlePrepare_Inv
<1>15. CASE find_direct_lease_for_withdrawal(t) BY <1>15, find_direct_lease_for_withdrawal_Inv
<1>16. CASE SettleRecover(t) BY <1>16, SettleRecover_Inv
<1>17. CASE WithdrawReconcile(t) BY <1>17, WithdrawReconcile_Inv
<1>18. CASE CheckNoLease(t) BY <1>18, CheckNoLease_Inv
<1>19. CASE Prove(t) BY <1>19, Prove_Inv
<1>20. CASE InstallPlan(t) BY <1>20, InstallPlan_Inv
<1>21. CASE onchain_withdrawal_status(t) BY <1>21, onchain_withdrawal_status_Inv
<1>22. CASE ConfirmActive(t) BY <1>22, ConfirmActive_Inv
<1>23. CASE reset_wallet(t) BY <1>23, reset_wallet_Inv
<1>24. CASE ForgetPlan(t) BY <1>24, ForgetPlan_Inv
<1>25. CASE ForgetLease(t) BY <1>25, ForgetLease_Inv
<1> QED
  BY <1>1, <1>2, <1>3, <1>4, <1>5, <1>6, <1>7, <1>8, <1>9, <1>10, <1>11, <1>12, <1>13, <1>14,
     <1>15, <1>16, <1>17, <1>18, <1>19, <1>20, <1>21, <1>22, <1>23, <1>24, <1>25 DEF Continue

\* Every step keeps the daemon in order.
LEMMA NextInv == ClientInv /\ [ClientNext]_vars => ClientInv'
<1> SUFFICES ASSUME ClientInv, [ClientNext]_vars PROVE ClientInv'
  OBVIOUS
<1>1. ASSUME NEW t \in Tasks, Call(t) \/ Continue(t) PROVE ClientInv'
  BY <1>1, CallInv, ContinueInv
<1>2. CASE reconcile_direct_openrouter BY <1>2, reconcile_direct_openrouter_Inv
<1>3. ASSUME NEW n \in Notes, confirm_deposit(n) \/ VaultStep(n) PROVE ClientInv'
  BY <1>3, confirm_deposit_Inv, VaultStep_Inv
<1>4. CASE Restart BY <1>4, Restart_Inv
<1>5. ASSUME NEW id \in Ids, KeyExpires(id) \/ ServerSettles(id) \/ ServerFinishes(id) PROVE ClientInv'
  BY <1>5, KeyExpires_Inv, ServerSettles_Inv, ServerFinishes_Inv
<1>6. CASE UNCHANGED vars
  <2>1. UNCHANGED <<mode, wallet, requests, lease, task, vault, faults, planVars, serverVars>>
    BY <1>6 DEF vars, planVars, serverVars
  <2>2. StoreStep BY <2>1, Parts, StoreIdle
  <2> QED BY <2>1, <2>2, QuietEnvironment
<1> QED BY <1>1, <1>2, <1>3, <1>4, <1>5, <1>6 DEF ClientNext

\* The daemon's files, its memory, the server's rows and every call in progress agree,
\* for any number of concurrent calls, faults and restarts.
THEOREM ClientInvariance == ClientSpec => []ClientInv
<1>1. ClientInit => ClientInv BY InitInv
<1>2. ClientInv /\ [ClientNext]_vars => ClientInv' BY NextInv
<1> QED BY <1>1, <1>2, PTL DEF ClientSpec

\* The journal holds the request the server has accepted for the wallet's state: no
\* lost answer, cleared journal or restart makes the wallet forget a spend.
THEOREM ClientKeepsReservation == ClientSpec => []ReservationIsJournalled
<1>1. ClientInv => ReservationIsJournalled BY DEF ClientInv
<1> QED BY <1>1, ClientInvariance, PTL

\* The plan of a mutual close is for the authoritative state, which is cleared.
THEOREM ClientMutualPlanIsFinal == ClientSpec => []MutualPlanIsFinal
<1>1. ClientInv => MutualPlanIsFinal
  BY DEF ClientInv, MutualPlanIsFinal, Binding
<1> QED BY <1>1, ClientInvariance, PTL

\* A key is retired under a call that uses it only when it has expired or its note is
\* closed: the exclusive lock excludes the streams of the key, and a call that issues a
\* lease under the shared lock has found no key in memory.
THEOREM ClientRetirementExcludesUse == ClientSpec => []RetirementExcludesUse
<1>1. ClientInv => RetirementExcludesUse
  <2> SUFFICES ASSUME ClientInv, NEW t \in Tasks, NEW u \in Tasks, t # u,
                      task[t].pc \in RetirePcs, task[u].pc = "infer", task[t].id = task[u].id
               PROVE  task[t].id \in expired \/ NoteClosed(task[t].id)
    BY DEF RetirementExcludesUse, At
  <2>1. StoreOK /\ CallsOK BY Parts
  <2>2. /\ CallIsFormed(task[t]) /\ CallIsCovered(task[t])
        /\ CallIsFormed(task[u]) /\ CallIsCovered(task[u])
        /\ task[t].then \in Thens
    BY <2>1, CallTypes
  <2>3. Reads(task[u]) BY IssuersHoldSlot
  <2>4. ~Writes(task[t]) BY <2>1, <2>3, WriteExcludes
  <2>5. Issuing(task[t]) BY <2>2, <2>4 DEF CallIsFormed, Issuing, Writes, Thens
  <2>6. lease.id = 0 BY <2>2, <2>5 DEF CallIsCovered, NoLease
  <2>7. task[u].id \in DOMAIN requests BY <2>2 DEF CallIsFormed
  <2>8. task[u].id # 0 BY <2>1, <2>7, RequestTypes DEF StoreOK
  <2> QED BY <2>2, <2>6, <2>8 DEF CallIsCovered
<1> QED BY <1>1, ClientInvariance, PTL

\* A key serves the calls of one session only, whatever it is replaced by.
THEOREM ClientKeyServesOneSession == ClientSpec => []KeyServesOneSession
<1>1. ClientInv => KeyServesOneSession BY DEF ClientInv
<1> QED BY <1>1, ClientInvariance, PTL

=============================================================================
