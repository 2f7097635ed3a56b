---------------------------- MODULE CommandLine ----------------------------
(***************************************************************************)
(* The zkapi command line (zkapi-cli/src/main.rs) against a daemon and the *)
(* vault.  `zkapi client` rotates a spent note, funds a fresh one with     *)
(* transactions sent by cast and then serves the daemon's API.  Any number *)
(* of `zkapi withdraw` commands drive that daemon over HTTP and send the   *)
(* transactions that close the note, while other applications use the same *)
(* API and other people the same vault.                                    *)
(*                                                                         *)
(* A process may end at every step: a refused answer, a timeout, a failed  *)
(* cast, an RPC error and Ctrl-C all leave the function by its `?`.  Ends  *)
(* after a step stand for an answer that was lost although the step was    *)
(* made, and a transaction that was broadcast outlives its process.        *)
(*                                                                         *)
(* The handlers of the daemon are single steps here; what happens inside   *)
(* them is ClientDaemon.  The indexer and the server are reduced to what   *)
(* the command line sees of them; the vault and cast are external.         *)
(***************************************************************************)
EXTENDS Naturals, FiniteSets

CONSTANTS
  Commands,         \* `zkapi withdraw` processes
  Destinations,     \* --destination
  Secrets,          \* what generate_deposit_params may draw
  Credits,          \* --initial-credits
  Cap,              \* the manifest's request_charge_cap
  MaxNotes,         \* bound on the notes of the vault
  MaxOrphans,       \* bound on the broadcast transactions nobody waits for
  Nobody, Treasury

ASSUME CommandLineAssumption ==
  /\ Cap \in Nat \ {0} /\ Credits \subseteq Nat /\ MaxNotes \in Nat /\ MaxOrphans \in Nat
  /\ Nobody \notin Secrets \cup Commands \cup Destinations \cup {"client"}
  /\ "client" \notin Commands
  /\ Treasury \notin Destinations

VARIABLES
  wallet,       \* note_state.json and whether pending_journal.json exists
  retired,      \* the note states moved to retired/
  archive,      \* the secrets moved to archive/
  plan,         \* prepared_withdrawal.json
  client,       \* the `zkapi client` process
  cmd,          \* the `zkapi withdraw` processes
  app,          \* the closed note that an application's confirm_withdrawal has seen
  vault,        \* external: the notes on chain
  mempool,      \* external: transactions broadcast and not yet mined
  indexed,      \* the last note the indexer has seen
  server,       \* what the server says is left of a note
  abandoned     \* secrets of fundings that ended after the deposit was sent

vars == <<wallet, retired, archive, plan, client, cmd, app, vault, mempool, indexed, server,
          abandoned>>

Notes == 1..MaxNotes
Amounts == 0..MaxNotes * Cap \cup UNION {0..a : a \in Credits}

NoNote == [note |-> 0, secret |-> Nobody, balance |-> 0, pending |-> FALSE]
NoPlan == [mode |-> "none", destination |-> Nobody, note |-> 0, secret |-> Nobody, balance |-> 0]
NoFunding == [pc |-> "down", amount |-> 0, secret |-> Nobody, note |-> 0]
Idle == [pc |-> "idle", mode |-> "none", destination |-> Nobody, note |-> 0, local |-> 0,
         plan |-> NoPlan]
Untouched == [status |-> "none", owner |-> Nobody, payee |-> Nobody, amount |-> 0]

SomeNote == [note : Notes, secret : Secrets, balance : Amounts, pending : BOOLEAN]
Plan == [mode : {"mutual", "escape"}, destination : Destinations, note : Notes,
         secret : Secrets, balance : Amounts]
SentPcs == {"deposit_sent", "indexing"}
Funding == [pc : {"down", "prepare", "deposit", "serving"} \cup SentPcs,
            amount : Amounts, secret : Secrets \cup {Nobody}, note : 0..MaxNotes + 1]
Command == [pc : {"idle", "withdraw", "send", "sent", "wait", "reset"},
            mode : {"none", "mutual", "escape", "finalize"},
            destination : Destinations \cup {Nobody},
            note : 0..MaxNotes, local : 0..MaxNotes, plan : Plan \cup {NoPlan}]
NoteOnChain == [status : {"none", "active", "pending_withdrawal", "closed"},
                owner : Secrets \cup {Nobody},
                payee : Destinations \cup {Treasury, Nobody}, amount : Amounts]

CliTypeOK ==
  /\ wallet \in SomeNote \cup {NoNote} /\ retired \subseteq SomeNote /\ archive \subseteq Secrets
  /\ plan \in Plan \cup {NoPlan}
  /\ client \in Funding /\ cmd \in [Commands -> Command] /\ app \in 0..MaxNotes
  /\ vault \in [Notes -> NoteOnChain] /\ indexed \in 0..MaxNotes /\ server \in [Notes -> Amounts]
  /\ abandoned \subseteq Secrets

CliInit ==
  /\ wallet = NoNote /\ retired = {} /\ archive = {} /\ plan = NoPlan
  /\ client = NoFunding
  /\ cmd = [c \in Commands |-> Idle]
  /\ app = 0
  /\ vault = [n \in Notes |-> Untouched]
  /\ mempool = {} /\ indexed = 0 /\ server = [n \in Notes |-> 0]
  /\ abandoned = {}

fundVars == <<retired, client, abandoned>>
chainVars == <<vault, mempool, indexed, server>>

-----------------------------------------------------------------------------
(* The vault, external *)

NotesOnChain == {n \in Notes : vault[n].status # "none"}
NextNoteId == Cardinality(NotesOnChain) + 1

Deposited(n, s, a) ==
  /\ vault' = [vault EXCEPT ![n] = [status |-> "active", owner |-> s, payee |-> Nobody, amount |-> 0]]
  /\ server' = [server EXCEPT ![n] = a]

\* The transactions cast sends; by is the process that waits for the receipt.
DepositTx(s, n, a, by) ==
  [kind |-> "deposit", note |-> n, secret |-> s, amount |-> a, destination |-> Nobody, by |-> by]
WithdrawTx(p, by) ==
  [kind |-> p.mode, note |-> p.note, secret |-> p.secret, amount |-> p.balance,
   destination |-> p.destination, by |-> by]
FinalizeTx(n, by) ==
  [kind |-> "finalize", note |-> n, secret |-> Nobody, amount |-> 0, destination |-> Nobody, by |-> by]

\* A deposit proves its slot to be empty with zero_path, a withdrawal proves the secret.
Applies(tx) ==
  CASE tx.kind = "deposit" -> tx.note = NextNoteId /\ tx.note \in Notes
    [] tx.kind \in {"mutual", "escape"} ->
         vault[tx.note].status = "active" /\ vault[tx.note].owner = tx.secret
    [] tx.kind = "finalize" -> vault[tx.note].status = "pending_withdrawal"

Apply(tx) ==
  CASE tx.kind = "deposit" -> Deposited(tx.note, tx.secret, tx.amount)
    [] tx.kind = "mutual" ->
         /\ vault' = [vault EXCEPT ![tx.note].status = "closed", ![tx.note].payee = tx.destination,
                                   ![tx.note].amount = tx.amount]
         /\ UNCHANGED server
    [] tx.kind = "escape" ->
         /\ vault' = [vault EXCEPT ![tx.note].status = "pending_withdrawal",
                                   ![tx.note].payee = tx.destination, ![tx.note].amount = tx.amount]
         /\ UNCHANGED server
    [] tx.kind = "finalize" ->
         /\ vault' = [vault EXCEPT ![tx.note].status = "closed"]
         /\ UNCHANGED server

\* A process that ends no longer waits for its transaction, which stays broadcast.
Orphan(by) == {IF tx.by = by THEN [tx EXCEPT !.by = Nobody] ELSE tx : tx \in mempool}
OrphanBound(by) == Cardinality({tx \in Orphan(by) : tx.by = Nobody}) <= MaxOrphans

\* Mutant: the exit status of cast is not looked at.
run_cast_signed_Unchecked(tx) == TRUE
run_cast_transaction_Unchecked(tx) == TRUE

\* cast waits for the receipt and fails if the transaction reverted.
run_cast_signed(tx) == Applies(tx)
run_cast_transaction(tx) == Applies(tx)

(***************************************************************************)
(* A transaction is mined and cast, if it still runs, returns.  A failure  *)
(* ends the process.                                                       *)
(***************************************************************************)
Mine(tx) ==
  /\ mempool' = mempool \ {tx}
  /\ IF Applies(tx) THEN Apply(tx) ELSE UNCHANGED <<vault, server>>
  /\ IF tx.kind = "deposit"
       THEN /\ client' = IF tx.by = Nobody THEN client
                         ELSE IF run_cast_signed(tx) THEN [client EXCEPT !.pc = "indexing"] ELSE NoFunding
            /\ UNCHANGED cmd
       ELSE /\ cmd' = IF tx.by = Nobody THEN cmd
                      ELSE [cmd EXCEPT ![tx.by] =
                              IF run_cast_transaction(tx) THEN [@ EXCEPT !.pc = "wait"] ELSE Idle]
            /\ UNCHANGED client
  /\ UNCHANGED <<wallet, retired, archive, plan, app, indexed, abandoned>>

OtherDeposit ==
  /\ NextNoteId \in Notes
  /\ Deposited(NextNoteId, Nobody, 0)
  /\ UNCHANGED <<wallet, archive, plan, app, mempool, indexed, cmd, fundVars>>

\* The server challenges an escape that claims more than is left; anyone may claim a note
\* that has expired for the treasury.
ChallengeOrClaim(n) ==
  /\ \/ /\ vault[n].status = "pending_withdrawal" /\ vault[n].amount > server[n]
        /\ vault' = [vault EXCEPT ![n].status = "active", ![n].payee = Nobody, ![n].amount = 0]
     \/ /\ vault[n].status = "active"
        /\ vault' = [vault EXCEPT ![n].status = "closed", ![n].payee = Treasury]
  /\ UNCHANGED <<wallet, archive, plan, app, mempool, indexed, server, cmd, fundVars>>

IndexerAdvances ==
  /\ indexed < Cardinality(NotesOnChain)
  /\ indexed' = indexed + 1
  /\ UNCHANGED <<wallet, archive, plan, app, vault, mempool, server, cmd, fundVars>>

-----------------------------------------------------------------------------
(* The deployment manifest and the options *)

Manifest == [version : {1, 2}, backend : {"groth16_bn254", "other"}, urls : BOOLEAN,
             vault : {"ours", "other"}]

validate_deployment_manifest(m) == m.version = 2 /\ m.backend = "groth16_bn254" /\ m.urls

\* The running client must use the chain and contract that --deployment selects.
validate_client_deployment(m) == m.vault = "ours"

\* A --client-url, by what local_client_endpoint tells apart
local_client_endpoint(url) == url = "loopback_http"

\* What the commands go on with; they end without a trace for all the others.
Manifests == {m \in Manifest : validate_deployment_manifest(m)}
Options == {o \in Manifests \X {"loopback_http", "other"} :
              validate_client_deployment(o[1]) /\ local_client_endpoint(o[2])}

-----------------------------------------------------------------------------
(* zkapi client *)

UsedSecrets ==
  {wallet.secret, client.secret} \cup archive \cup abandoned \cup {r.secret : r \in retired}
    \cup {vault[n].owner : n \in Notes} \cup {tx.secret : tx \in mempool}

minimum_initial_credits == 2 * Cap

\* The address of the key that the user types in, which is kept in a temporary keystore; nothing
\* when cast does not import it.
create_ephemeral_cast_signer == {"none", "signer"}

\* fund_public_deployment refuses an amount that one request could use up, and a signer other
\* than the --address that was asked for.
FundingBegins(a, address) ==
  \E signer \in create_ephemeral_cast_signer :
    client' = IF a >= minimum_initial_credits /\ signer # "none" /\ address \in {"none", signer}
                THEN [NoFunding EXCEPT !.pc = "prepare", !.amount = a] ELSE NoFunding

\* Mutant: the journal of an unanswered request is not looked for.
Retirable_Pending == wallet.note # 0 /\ wallet.balance <= Cap

Retirable == wallet.note # 0 /\ wallet.balance <= Cap /\ ~wallet.pending

\* The note is moved to a fresh directory under retired/; the plan file stays.
retire_low_balance_note == wallet' = NoNote /\ retired' = retired \cup {wallet}

(***************************************************************************)
(* With a valid manifest: a note that has credits is served, a note        *)
(* without is rotated, an empty wallet is funded, unless --no-fund.        *)
(***************************************************************************)
run_one_command_client(m, a, address, noFund) ==
  /\ client.pc = "down" /\ m.vault = "ours"
  /\ \/ /\ wallet.balance > Cap \/ noFund
        /\ client' = [NoFunding EXCEPT !.pc = "serving"]
        /\ UNCHANGED <<wallet, retired>>
     \/ /\ wallet.note = 0 /\ ~noFund
        /\ FundingBegins(a, address)
        /\ UNCHANGED <<wallet, retired>>
     \/ /\ Retirable /\ ~noFund
        /\ retire_low_balance_note
        /\ FundingBegins(a, address)
  /\ UNCHANGED <<archive, plan, app, abandoned, cmd, chainVars>>

\* The plan is for the next note the indexer knows of; the secret is kept in memory only.
prepare_deposit(s) ==
  /\ client.pc = "prepare" /\ wallet.note = 0 /\ s \notin UsedSecrets
  /\ client' = [client EXCEPT !.pc = "deposit", !.secret = s, !.note = indexed + 1]
  /\ UNCHANGED <<wallet, retired, archive, plan, app, abandoned, cmd, chainVars>>

\* After the optional mint, the token's decimals and balance, and the approval, each of which
\* may end the process.
SendDeposit ==
  /\ client.pc = "deposit"
  /\ client' = [client EXCEPT !.pc = "deposit_sent"]
  /\ mempool' = mempool \cup {DepositTx(client.secret, client.note, client.amount, "client")}
  /\ UNCHANGED <<wallet, retired, archive, plan, app, vault, indexed, server, abandoned, cmd>>

\* Any note of that id will do.
wait_for_indexed_note == client.pc = "indexing" /\ indexed >= client.note

\* The expiry is read from the vault and the note put into the wallet; then the daemon serves.
ConfirmFunding ==
  /\ wait_for_indexed_note /\ wallet.note = 0
  /\ wallet' = [note |-> client.note, secret |-> client.secret, balance |-> client.amount,
                pending |-> FALSE]
  /\ client' = [NoFunding EXCEPT !.pc = "serving"]
  /\ UNCHANGED <<retired, archive, plan, app, abandoned, cmd, chainVars>>

\* The process ends, at any point; a secret whose deposit was sent is gone with it.
ClientEnds ==
  /\ client.pc # "down" /\ OrphanBound("client")
  /\ client' = NoFunding
  /\ abandoned' = IF client.pc \in SentPcs THEN abandoned \cup {client.secret} ELSE abandoned
  /\ mempool' = Orphan("client")
  /\ app' = 0
  /\ UNCHANGED <<wallet, retired, archive, plan, vault, indexed, server, cmd>>

-----------------------------------------------------------------------------
(* The daemon's API *)

Serving == client.pc = "serving"

\* A request leaves its journal behind until it is answered; a plan blocks requests.
SendRequest ==
  /\ Serving /\ wallet.note # 0 /\ ~wallet.pending /\ plan = NoPlan /\ wallet.balance >= Cap
  /\ wallet' = [wallet EXCEPT !.pending = TRUE]
  /\ UNCHANGED <<archive, plan, app, chainVars, cmd, fundVars>>

ServerCharges(charge) ==
  /\ wallet.pending /\ server[wallet.note] = wallet.balance
  /\ server' = [server EXCEPT ![wallet.note] = @ - charge]
  /\ UNCHANGED <<wallet, archive, plan, app, vault, mempool, indexed, cmd, fundVars>>

\* Answered, recovered, or found never to have been accepted.
Settled == [wallet EXCEPT !.pending = FALSE, !.balance = IF wallet.pending THEN server[wallet.note] ELSE @]

ReceiveAnswer ==
  /\ Serving /\ wallet.pending
  /\ wallet' = Settled
  /\ UNCHANGED <<archive, plan, app, chainVars, cmd, fundVars>>

\* Mutant: the closed state is deleted instead of archived.
WalletReset_Delete ==
  /\ wallet' = NoNote /\ plan' = NoPlan /\ UNCHANGED archive

\* reset_wallet: whatever note is there is archived; the journal and the plan are removed.
WalletReset ==
  /\ wallet' = NoNote /\ plan' = NoPlan
  /\ archive' = IF wallet.note = 0 THEN archive ELSE archive \cup {wallet.secret}

\* An application deposits and confirms through the daemon: prepare_deposit, its transaction and
\* confirm_deposit in one step, the guess of the note id being right.
AppDeposit(s, a) ==
  /\ Serving /\ wallet.note = 0 /\ s \notin UsedSecrets /\ NextNoteId \in Notes
  /\ a >= minimum_initial_credits
  /\ Deposited(NextNoteId, s, a)
  /\ wallet' = [note |-> NextNoteId, secret |-> s, balance |-> a, pending |-> FALSE]
  /\ UNCHANGED <<archive, plan, app, mempool, indexed, cmd, fundVars>>

\* confirm_withdrawal: an escape plan of an active note is forgotten (ClientDaemon has the steps
\* of this), and a closed note is reset, in a second step.
AppConfirms ==
  /\ Serving /\ app = 0 /\ wallet.note # 0
  /\ \/ /\ vault[wallet.note].status = "active" /\ plan.mode = "escape"
        /\ plan' = NoPlan /\ UNCHANGED app
     \/ /\ vault[wallet.note].status = "closed"
        /\ app' = wallet.note /\ UNCHANGED plan
  /\ UNCHANGED <<wallet, archive, chainVars, cmd, fundVars>>

AppResets ==
  /\ Serving /\ app # 0
  /\ app' = 0
  /\ WalletReset
  /\ UNCHANGED <<chainVars, cmd, fundVars>>

-----------------------------------------------------------------------------
(* zkapi withdraw *)

At(c, pc) == cmd[c].pc = pc
Goto(c, pc) == cmd' = [cmd EXCEPT ![c].pc = pc]

\* POST /wallet/settle, whose answer names the note that will be withdrawn.
run_managed_withdrawal(c, mode, d) ==
  /\ At(c, "idle") /\ Serving /\ wallet.note # 0
  /\ wallet' = Settled
  /\ cmd' = [cmd EXCEPT ![c] = [Idle EXCEPT !.pc = "withdraw", !.mode = mode, !.destination = d,
                                            !.note = wallet.note]]
  /\ UNCHANGED <<archive, plan, app, chainVars, fundVars>>

\* create_withdrawal: the plan there is, or a fresh one.
PlanFor(m, d) ==
  IF plan.mode = m /\ plan.destination = d THEN {plan}
  ELSE IF /\ plan = NoPlan \/ (plan.mode = "mutual" /\ m = "escape" /\ plan.destination = d)
          /\ wallet.note # 0 /\ ~wallet.pending
    THEN {[mode |-> m, destination |-> d, note |-> wallet.note, secret |-> wallet.secret,
           balance |-> wallet.balance]}
    ELSE {}

\* Mutant: the note of the plan is not compared with the settled one.
validate_withdrawal_plan_AnyNote(c, p) ==
  p.mode = cmd[c].mode /\ p.destination = cmd[c].destination

\* Including the comparison that follows the call.
validate_withdrawal_plan(c, p) ==
  p.mode = cmd[c].mode /\ p.destination = cmd[c].destination /\ p.note = cmd[c].note

\* POST /wallet/withdraw
PrepareWithdrawal(c) ==
  /\ At(c, "withdraw") /\ Serving
  /\ \E p \in PlanFor(cmd[c].mode, cmd[c].destination) :
       /\ plan' = p
       /\ cmd' = [cmd EXCEPT ![c] = IF validate_withdrawal_plan(c, p)
                                      THEN [@ EXCEPT !.pc = "send", !.plan = p] ELSE Idle]
  /\ UNCHANGED <<wallet, archive, app, chainVars, fundVars>>

\* cast send; a dry run ends here with cast call.
run_withdrawal_contract_call(c) ==
  /\ At(c, "send") /\ cmd[c].mode \in {"mutual", "escape"}
  /\ Goto(c, "sent")
  /\ mempool' = mempool \cup {WithdrawTx(cmd[c].plan, c)}
  /\ UNCHANGED <<wallet, archive, plan, app, vault, indexed, server, fundVars>>

run_finalize_escape_call(c) ==
  /\ At(c, "send") /\ cmd[c].mode = "finalize"
  /\ Goto(c, "sent")
  /\ mempool' = mempool \cup {FinalizeTx(cmd[c].note, c)}
  /\ UNCHANGED <<wallet, archive, plan, app, vault, indexed, server, fundVars>>

\* wait_for_note_status: 3 for a mutual close and a finalization, 2 for an escape
Reached(c) ==
  vault[cmd[c].note].status = (IF cmd[c].mode = "escape" THEN "pending_withdrawal" ELSE "closed")

\* An escape is reported with its deadline and stays in the wallet, and so does a note the
\* finalization did not find there.
wait_for_note_status(c) ==
  /\ At(c, "wait") /\ Reached(c)
  /\ cmd' = [cmd EXCEPT ![c] =
       IF @.mode = "mutual" \/ (@.mode = "finalize" /\ @.local = @.note)
         THEN [@ EXCEPT !.pc = "reset"] ELSE Idle]
  /\ UNCHANGED <<wallet, archive, plan, app, chainVars, fundVars>>

\* POST /wallet/reset, and the report of the command.
ResetWallet(c) ==
  /\ At(c, "reset") /\ Serving
  /\ WalletReset
  /\ cmd' = [cmd EXCEPT ![c] = Idle]
  /\ UNCHANGED <<app, chainVars, fundVars>>

\* The note is the one given or the wallet's, which must agree; a closed note needs no
\* transaction.
finalize_escape_withdrawal(c, n) ==
  /\ At(c, "idle") /\ Serving
  /\ wallet.note \in {0, n}
  /\ vault[n].status \in {"pending_withdrawal", "closed"}
  /\ cmd' = [cmd EXCEPT ![c] =
       [Idle EXCEPT !.pc = IF vault[n].status = "closed" THEN "wait" ELSE "send",
                    !.mode = "finalize", !.note = n, !.local = wallet.note]]
  /\ UNCHANGED <<wallet, archive, plan, app, chainVars, fundVars>>

CommandEnds(c) ==
  /\ ~At(c, "idle") /\ OrphanBound(c)
  /\ cmd' = [cmd EXCEPT ![c] = Idle]
  /\ mempool' = Orphan(c)
  /\ UNCHANGED <<wallet, archive, plan, app, vault, indexed, server, fundVars>>

-----------------------------------------------------------------------------
(* The specification *)

Withdraw(c) ==
  \/ \E o \in Options, mode \in {"mutual", "escape"}, d \in Destinations :
       run_managed_withdrawal(c, mode, d)
  \/ \E o \in Options, n \in Notes : finalize_escape_withdrawal(c, n)
  \/ PrepareWithdrawal(c)
  \/ run_withdrawal_contract_call(c) \/ run_finalize_escape_call(c)
  \/ wait_for_note_status(c) \/ ResetWallet(c) \/ CommandEnds(c)

Fund ==
  \/ \E m \in Manifests, a \in Credits, address \in {"none", "signer", "other"}, noFund \in BOOLEAN :
       run_one_command_client(m, a, address, noFund)
  \/ \E s \in Secrets : prepare_deposit(s)
  \/ SendDeposit \/ ConfirmFunding \/ ClientEnds

Daemon ==
  \/ SendRequest \/ ReceiveAnswer
  \/ \E s \in Secrets, a \in Credits : AppDeposit(s, a)
  \/ AppConfirms \/ AppResets

Environment ==
  \/ \E tx \in mempool : Mine(tx)
  \/ OtherDeposit \/ IndexerAdvances
  \/ \E n \in Notes : ChallengeOrClaim(n)
  \/ \E charge \in 1..Cap : ServerCharges(charge)

CliNext == (\E c \in Commands : Withdraw(c)) \/ Fund \/ Daemon \/ Environment

CliSpec == CliInit /\ [][CliNext]_vars

-----------------------------------------------------------------------------
(* Properties *)

(***************************************************************************)
(* The funds of an open note can be reached: its secret is in the wallet,  *)
(* in retired/, in archive/ or with the process that funds it.  The one    *)
(* way to lose it is a funding that ended between sending its deposit      *)
(* (fund_public_deployment) and confirming it.                             *)
(***************************************************************************)
EscrowedSecretIsKept ==
  \A n \in Notes :
    vault[n].status \in {"active", "pending_withdrawal"} /\ vault[n].owner # Nobody
      => vault[n].owner \in {wallet.secret, client.secret} \cup archive \cup abandoned
                              \cup {r.secret : r \in retired}

(***************************************************************************)
(* The note in the wallet is the one its secret opens, although the id was *)
(* guessed from the indexer and another deposit may have taken it          *)
(* (prepare_deposit, wait_for_indexed_note).                               *)
(***************************************************************************)
FundedNoteIsOurs == wallet.note # 0 => vault[wallet.note].owner = wallet.secret

(***************************************************************************)
(* What `zkapi withdraw` prints after a mutual close is what happened: the *)
(* vault paid that balance to that destination, whoever else closed,       *)
(* challenged or claimed the note meanwhile.                               *)
(***************************************************************************)
ReportedPayout ==
  \A c \in Commands :
    cmd[c].pc = "reset" /\ cmd[c].mode = "mutual" =>
      LET n == vault[cmd[c].note] IN
      /\ n.status = "closed" /\ n.payee = cmd[c].destination /\ n.amount = cmd[c].plan.balance

(***************************************************************************)
(* A command sends a transaction only for the note it settled, also when   *)
(* the daemon still holds the plan of a note that was rotated out of the   *)
(* wallet.                                                                 *)
(***************************************************************************)
SentForSettledNote ==
  \A tx \in mempool : tx.by \in Commands => tx.note = cmd[tx.by].note

(***************************************************************************)
(* A note is retired in its last state ("A pending request is never        *)
(* retired because its eventual response may still advance the note        *)
(* state"): nothing is charged to it later, so what it says can be         *)
(* withdrawn without being challenged.                                     *)
(***************************************************************************)
RetiredStateIsCurrent == \A r \in retired : server[r.note] = r.balance

-----------------------------------------------------------------------------
(* The inductive invariant: what makes the properties above true together *)

\* Note ids are handed out without a gap.
NotesAreDense == \E k \in 0..MaxNotes : NotesOnChain = 1..k

Tx == [kind : {"deposit", "mutual", "escape", "finalize"}, note : 1..MaxNotes + 1,
       secret : Secrets \cup {Nobody}, amount : Amounts, destination : Destinations \cup {Nobody},
       by : Commands \cup {"client", Nobody}]

\* What a transaction says whether or not anyone still waits for it.
TxMeansSomething(tx) ==
  /\ tx.kind = "deposit" => tx.secret \in Secrets /\ tx.by \in {"client", Nobody}
  /\ tx.kind # "deposit" => tx.note \in Notes /\ tx.by # "client"
  /\ tx.kind \in {"mutual", "escape"} => tx.destination \in Destinations
  /\ tx.kind = "deposit" /\ tx.by = Nobody => tx.secret \in abandoned

\* A process waits for one transaction, which carries what the process holds.
TxIsAwaited(tx) ==
  /\ tx.by = "client" =>
       /\ client.pc = "deposit_sent" /\ tx.destination = Nobody
       /\ tx.secret = client.secret /\ tx.note = client.note /\ tx.amount = client.amount
  /\ tx.by \in Commands =>
       LET held == cmd[tx.by] IN
       /\ held.pc = "sent" /\ tx.kind = held.mode /\ tx.note = held.note
       /\ IF held.mode = "finalize"
            THEN tx.secret = Nobody /\ tx.amount = 0 /\ tx.destination = Nobody
            ELSE /\ tx.secret = held.plan.secret /\ tx.amount = held.plan.balance
                 /\ tx.destination = held.plan.destination

MempoolWellFormed ==
  mempool \subseteq Tx /\ \A tx \in mempool : TxMeansSomething(tx) /\ TxIsAwaited(tx)

\* A funding holds a secret of its own, which opens no note before its deposit is mined, and
\* is the only one who knows it then.
FundingIsFresh ==
  /\ client.pc \notin {"down", "serving"} => wallet = NoNote
  /\ client.pc \in {"down", "serving", "prepare"} => client.secret = Nobody
  /\ client.pc \in {"deposit"} \cup SentPcs =>
       /\ client.secret \in Secrets /\ client.note # 0
       /\ \A r \in retired : r.secret # client.secret
  /\ client.pc \in {"deposit", "deposit_sent"} =>
       /\ \A n \in Notes : vault[n].owner # client.secret
       /\ \A tx \in mempool : tx.by = Nobody => tx.secret # client.secret \/ tx.kind # "deposit"
  /\ client.pc = "indexing" =>
       /\ client.note \in NotesOnChain /\ vault[client.note].owner = client.secret
       /\ server[client.note] = client.amount

\* The wallet's note is on chain and knows its balance unless an answer is outstanding, and
\* notes that were retired are others.
WalletIsKnown ==
  /\ wallet.note # 0 =>
       /\ wallet.note \in NotesOnChain
       /\ ~wallet.pending => server[wallet.note] = wallet.balance
       /\ wallet.pending => wallet.balance >= Cap
       /\ \A r \in retired : r.secret # wallet.secret
  /\ \A r \in retired : r.note \in NotesOnChain /\ vault[r.note].owner = r.secret

\* A command carries the plan that it has checked, and one past its transaction has seen it
\* applied.
CommandsWellFormed ==
  \A c \in Commands :
    /\ cmd[c].pc # "idle" => cmd[c].note \in Notes /\ cmd[c].mode # "none"
    /\ cmd[c].pc = "withdraw" => cmd[c].mode # "finalize" /\ cmd[c].destination \in Destinations
    /\ cmd[c].pc \in {"send", "sent", "wait", "reset"} /\ cmd[c].mode # "finalize" =>
         cmd[c].plan \in Plan /\ validate_withdrawal_plan(c, cmd[c].plan)
    /\ cmd[c].pc \in {"wait", "reset"} /\ cmd[c].mode = "mutual" =>
         LET n == vault[cmd[c].note] IN
         n.status = "closed" /\ n.payee = cmd[c].destination /\ n.amount = cmd[c].plan.balance

(***************************************************************************)
(* The state of the processes, files and transactions, whoever ended where *)
(* and whatever was mined late: every note has one secret and one holder   *)
(* of it, and every process holds what its transaction says.               *)
(***************************************************************************)
CliInv ==
  /\ CliTypeOK
  /\ FundedNoteIsOurs
  /\ EscrowedSecretIsKept
  /\ RetiredStateIsCurrent
  /\ NotesAreDense
  /\ MempoolWellFormed
  /\ FundingIsFresh
  /\ WalletIsKnown
  /\ CommandsWellFormed

=============================================================================
