---------------------------- MODULE ChainReading ----------------------------
(***************************************************************************)
(* What the service makes of a transaction it is told of                    *)
(* (stellar/stellar.service.ts): whether it is a contribution to a group's  *)
(* contract, of how much, and whether it has been applied.  Each question   *)
(* is a call of its own, answered from what the node reports at that time:  *)
(* some nodes describe the call beside the envelope, some leave the         *)
(* contract out, some give no envelope as text, or one that cannot be read. *)
(***************************************************************************)
EXTENDS Naturals, Sequences, FiniteSets

CONSTANTS
  Contracts, DefaultContract,  \* the contracts, CONTRACT_ADDRESS
  Amounts,                     \* the numbers that occur as arguments
  MaxRpcTroubles               \* calls of the node that fail

NoContract == "none"

ASSUME ReadingAssumption ==
  /\ DefaultContract \in Contracts /\ NoContract \notin Contracts /\ MaxRpcTroubles \in Nat
  /\ Amounts \subseteq Nat \ {0}

VARIABLES
  tx,          \* the transaction, as signed; it does not change
  report,      \* how the node describes it; nor does this
  phase,       \* what the node says of it
  said,        \* every answer given so far
  rpcTroubles

readingVars == <<tx, report, phase, said, rpcTroubles>>

Unreadable == 0

\* The arguments of a call: an i128, a value of another type.
Args == {[type |-> "i128", value |-> a] : a \in Amounts}
          \cup {[type |-> "other", value |-> Unreadable]}
ArgLists == {<<>>} \cup {<<x>> : x \in Args} \cup {<<x, y>> : x, y \in Args}
\* A transaction either is one contract call or has only classic operations.
Transactions ==
  [kind : {"call"}, fn : {"contribute", "other"}, contract : Contracts,
   args : ArgLists]
    \cup {[kind |-> "classic", fn |-> "other", contract |-> DefaultContract,
           args |-> <<>>]}
Reports == [direct : {"nothing", "method", "both"},
            amount : BOOLEAN, envelope : {"text", "unreadable"}]
Questions == {"verified", "refused", "amount", "asset", "verdict", "error"}

ReadingTypeOK ==
  /\ tx \in Transactions /\ report \in Reports
  /\ phase \in {"unknown", "pending", "success", "failed", "forgotten"}
  /\ DOMAIN said = Questions
  /\ said.verified \subseteq Contracts /\ said.refused \subseteq Contracts
  /\ said.amount \subseteq Amounts
  /\ said.asset \subseteq {"XLM", "number"}
  /\ said.verdict \subseteq {"PENDING", "CONFIRMED", "FAILED"}
  /\ said.error \subseteq {"gateway", "internal", "request"}
  /\ rpcTroubles \in 0 .. MaxRpcTroubles

-----------------------------------------------------------------------------
\* readScValAsString: the first accessor it tries is i128's, which fails for
\* a value of any other type; the failure is caught and nothing is read.
ReadScValAsString(arg) == IF arg.type = "i128" THEN arg.value ELSE Unreadable

\* readFunctionName, readContractAddress of the calls in the envelope; an
\* operation of another kind, or an envelope that is no text, has none.
EnvelopeCalls ==
  IF report.envelope = "text" /\ tx.kind = "call" THEN {tx} ELSE {}

DirectMethod == IF report.direct = "nothing" \/ tx.kind # "call" THEN "nothing"
                                                                 ELSE tx.fn
DirectContract ==
  IF report.direct = "both" THEN tx.contract ELSE NoContract

\* isContributionCall, isContributionCallForGroup.
IsContributionCall(contract) ==
  \/ DirectMethod = "contribute" /\ DirectContract \in {NoContract, contract}
  \/ \E c \in EnvelopeCalls : c.fn = "contribute" /\ c.contract = contract

\* The contract of a group that has none of its own is the configured one.
GroupContract(contract) ==
  IF contract = NoContract THEN DefaultContract ELSE contract

\* extractContributionAmount: the first argument that can be read as a number,
\* with the asset another one names: XLM, or the text of another number.
Readable == {i \in 1 .. Len(tx.args) :
               ReadScValAsString(tx.args[i]) # Unreadable}
AmountAt == CHOOSE i \in Readable : \A j \in Readable : i <= j
AmountOf == ReadScValAsString(tx.args[AmountAt])
AssetOf == IF ~report.amount
               /\ \E i \in Readable : ReadScValAsString(tx.args[i]) # AmountOf
           THEN "number" ELSE "XLM"
\* An amount the node gives beside the envelope is taken from there.
HasAmount ==
  /\ Readable # {}
  /\ report.amount \/ \E c \in EnvelopeCalls : c.fn = "contribute"

-----------------------------------------------------------------------------
Say(what, answer) == said' = [said EXCEPT ![what] = @ \cup {answer}]

\* mapRpcError: trouble of the network is a bad gateway, any other internal.
RpcError == \E e \in {"gateway", "internal"} :
  rpcTroubles > 0 /\ rpcTroubles' = rpcTroubles - 1 /\ Say("error", e)

ReadOnly == UNCHANGED <<tx, report, phase>>

\* verifyContributionForGroup: only of a transaction that has succeeded.
VerifyContributionForGroup(group) ==
  LET contract == GroupContract(group) IN
  /\ \/ /\ Say(IF phase = "success" /\ IsContributionCall(contract)
               THEN "verified" ELSE "refused", contract)
        /\ UNCHANGED rpcTroubles
     \/ RpcError
  /\ ReadOnly

\* verifyContribution asks of the configured contract.
VerifyContribution == VerifyContributionForGroup(NoContract)

\* getTransactionStatus: what is not known, or not yet applied, is pending.
GetTransactionStatus ==
  /\ \/ /\ Say("verdict", CASE phase = "success" -> "CONFIRMED"
                            [] phase = "failed" -> "FAILED"
                            [] OTHER -> "PENDING")
        /\ UNCHANGED rpcTroubles
     \/ RpcError
  /\ ReadOnly

\* getTransactionAmount: refused where there is no success or no amount.
GetTransactionAmount ==
  /\ \/ /\ IF phase = "success" /\ HasAmount
           THEN said' = [said EXCEPT !.amount = @ \cup {AmountOf},
                                     !.asset = @ \cup {AssetOf}]
           ELSE Say("error", "request")
        /\ UNCHANGED rpcTroubles
     \/ RpcError
  /\ ReadOnly

\* The ledger applies the transaction, the node hears of it and forgets it.
NodeHears(now) ==
  /\ \/ phase = "unknown" /\ now = "pending"
     \/ phase \in {"unknown", "pending"} /\ now \in {"success", "failed"}
     \/ phase \in {"success", "failed"} /\ now = "forgotten"
  /\ phase' = now /\ UNCHANGED <<tx, report, said, rpcTroubles>>

ReadingInit ==
  /\ tx \in Transactions /\ report \in Reports /\ phase = "unknown"
  /\ said = [q \in Questions |-> {}] /\ rpcTroubles = MaxRpcTroubles

ReadingNext ==
  \/ VerifyContribution \/ GetTransactionStatus \/ GetTransactionAmount
  \/ \E c \in Contracts : VerifyContributionForGroup(c)
  \/ \E now \in {"pending", "success", "failed", "forgotten"} :
       NodeHears(now)

ReadingSpec == ReadingInit /\ [][ReadingNext]_readingVars

-----------------------------------------------------------------------------
\* verifyContributionForGroup, getTransactionStatus and getTransactionAmount
\* read the node at different times and each in its own way: a transaction
\* one of them has taken for good is never FAILED for another, and a verdict
\* is never taken back.
AnswersAgree ==
  /\ "FAILED" \in said.verdict => said.verified = {} /\ said.amount = {}
  /\ ~{"FAILED", "CONFIRMED"} \subseteq said.verdict
  /\ Cardinality(said.amount) <= 1

\* isContributionCallForGroup and extractContributionAmount look at different
\* parts of the report: what is verified for a group is a call of contribute,
\* of that group's contract if the report names one, and the amount given
\* for it is one of its arguments.
VerifiedIsOurs ==
  \A c \in said.verified :
    /\ tx.kind = "call" /\ tx.fn = "contribute"
    /\ tx.contract = c \/ report.direct = "method"
    /\ \A a \in said.amount : \E i \in 1 .. Len(tx.args) :
         tx.args[i] = [type |-> "i128", value |-> a]

\* "Could be an asset identifier" (stellar.service.ts:969): the asset of a
\* contribution.  Fails: a second number among the arguments is taken for one.
AssetsAreAssets == said.asset \subseteq {"XLM"}
=============================================================================
