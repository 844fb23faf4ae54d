---------------------------- MODULE Certificates ----------------------------
(***************************************************************************)
(* The command that issues or renews the gateway's certificate             *)
(* (server/acme): prove control of the names with TXT records at           *)
(* Cloudflare, fetch the certificate, write two files, remove the records. *)
(*                                                                         *)
(* A run is split at its awaits and may die at each of them.  Cloudflare   *)
(* and the ACME authority are external; an answer may be lost after its    *)
(* effect.  Runs follow one another: an operator or a timer starts them.   *)
(***************************************************************************)
EXTENDS Naturals

CONSTANTS NumAuthorizations,  \* of the order: one per name
          MaxRuns             \* bound: runs of the command

ASSUME CertificatesAssumption ==
    NumAuthorizations \in Nat \ {0} /\ MaxRuns \in Nat

VARIABLES
    runs,       \* runs started so far; the last is the current one
    phase,      \* where the run waits
    authz,      \* the authorization it works on
    created,    \* createdRecords of the run
    accountKey, \* account.key: absent, torn by a crash, or good
    chain, key, \* run whose fullchain.pem and privkey.pem are on disk; 0 for none
    chainState, \* what decideRenewal makes of fullchain.pem
    records,    \* TXT records at Cloudflare, as <<run, authorization>>
    excused     \* history: records a lost answer or a crash took from the run

certVars == <<runs, phase, authz, created, accountKey, chain, key, chainState, records, excused>>
filesVars == <<accountKey, chain, key, chainState>>

Authorizations == 1..NumAuthorizations
Records == (1..MaxRuns) \X Authorizations
ThisRecord == <<runs, authz>>

CertificatesTypeOK ==
    /\ runs \in 0..MaxRuns
    /\ phase \in {"idle", "account", "create", "verify", "finalize", "chain", "key", "cleanup"}
    /\ authz \in Authorizations
    /\ created \subseteq Records /\ records \subseteq Records /\ excused \subseteq Records
    /\ accountKey \in {"absent", "torn", "good"}
    /\ {chain, key} \subseteq 0..MaxRuns
    /\ chainState \in {"missing", "invalid", "due", "valid"}

CertificatesInit ==
    /\ runs = 0 /\ phase = "idle" /\ authz = 1
    /\ created = {} /\ records = {} /\ excused = {}
    /\ accountKey = "absent" /\ chain = 0 /\ key = 0 /\ chainState = "missing"

-----------------------------------------------------------------------------
\* decideRenewal looks at fullchain.pem alone.
ShouldRenew == chainState # "valid"

\* runCli: configuration and Cloudflare token, then `renew` may find nothing
\* to do.  A refused token ends the run before it did anything.
RunCli(command) ==
    /\ phase = "idle" /\ runs < MaxRuns
    /\ command = "renew" => ShouldRenew
    /\ runs' = runs + 1
    /\ phase' = "account" /\ authz' = 1 /\ created' = {}
    /\ UNCHANGED <<filesVars, records, excused>>

\* loadOrCreateAccountKey, createAccount, createOrder, getAuthorizations: a
\* key that does not parse, or any refusal, ends the run.
OrderIsMade ==
    /\ phase = "account"
    /\ \/ /\ accountKey # "torn"
          /\ accountKey' = "good" /\ phase' = "create"
       \/ /\ accountKey' = (IF accountKey = "absent" THEN "good" ELSE accountKey)
          /\ phase' = "idle"
    /\ UNCHANGED <<runs, authz, created, chain, key, chainState, records, excused>>

\* createdRecords.push comes right after the answer, before the wait.
\* createTxtRecord: made and answered; made and the answer lost; refused.
CreateTxtRecord ==
    /\ phase = "create"
    /\ \/ /\ records' = records \cup {ThisRecord}
          /\ created' = created \cup {ThisRecord}
          /\ phase' = "verify" /\ UNCHANGED excused
       \/ /\ records' = records \cup {ThisRecord}
          /\ excused' = excused \cup {ThisRecord}
          /\ phase' = "cleanup" /\ UNCHANGED created
       \/ phase' = "cleanup" /\ UNCHANGED <<records, created, excused>>
    /\ UNCHANGED <<runs, authz, filesVars>>

MutMoreAuthorizations == authz <= NumAuthorizations

MoreAuthorizations == authz < NumAuthorizations

\* waitForTxtPropagation, verifyChallenge, completeChallenge,
\* waitForValidStatus: the next authorization, the end, or an exception.
VerifyChallenge ==
    /\ phase = "verify"
    /\ \/ /\ MoreAuthorizations
          /\ authz' = authz + 1 /\ phase' = "create"
       \/ /\ ~MoreAuthorizations
          /\ phase' = "finalize" /\ UNCHANGED authz
       \/ phase' = "cleanup" /\ UNCHANGED authz
    /\ UNCHANGED <<runs, created, filesVars, records, excused>>

FinalizeOrder ==
    /\ phase = "finalize"
    /\ phase' \in {"chain", "cleanup"}
    /\ UNCHANGED <<runs, authz, created, filesVars, records, excused>>

WriteFullchain ==
    /\ phase = "chain"
    /\ \/ chain' = runs /\ chainState' = "valid" /\ phase' = "key"
       \/ phase' = "cleanup" /\ UNCHANGED <<chain, chainState>>
    /\ UNCHANGED <<runs, authz, created, accountKey, key, records, excused>>

WritePrivkey ==
    /\ phase = "key"
    /\ phase' = "cleanup" /\ key' \in {key, runs}
    /\ UNCHANGED <<runs, authz, created, accountKey, chain, chainState, records, excused>>

MutCleanedUp == {r \in created : r[2] = authz}

CleanedUp == created

\* The finally block: every record of the run is tried, and a failure is only
\* warned about, whether Cloudflare deleted the record or not.
Cleanup ==
    /\ phase = "cleanup"
    /\ \E kept \in SUBSET CleanedUp :
         /\ records' = (records \ CleanedUp) \cup kept
         /\ excused' = excused \cup kept
    /\ phase' = "idle"
    /\ UNCHANGED <<runs, authz, created, filesVars>>

\* The process dies: while it writes a file, the file is torn; in the cleanup,
\* some records are gone already.
RunDies ==
    /\ phase # "idle"
    /\ phase' = "idle"
    /\ accountKey' \in IF phase = "account" /\ accountKey = "absent" THEN {"absent", "torn", "good"}
                       ELSE {accountKey}
    /\ \/ UNCHANGED <<chain, chainState>>
       \/ phase = "chain" /\ chain' = 0 /\ chainState' = "invalid"
    /\ \/ UNCHANGED key
       \/ phase = "key" /\ key' = 0
    /\ \E gone \in SUBSET created :
         /\ phase # "cleanup" => gone = {}
         /\ records' = records \ gone
    /\ excused' = excused \cup {r \in records' : r[1] = runs}
    /\ UNCHANGED <<runs, authz, created>>

\* Time passes: the certificate enters the renewal window.
ComesDue ==
    /\ chainState = "valid"
    /\ chainState' = "due"
    /\ UNCHANGED <<runs, phase, authz, created, accountKey, chain, key, records, excused>>

CertificatesNext ==
    \/ \E command \in {"issue", "renew"} : RunCli(command)
    \/ OrderIsMade \/ CreateTxtRecord \/ VerifyChallenge \/ FinalizeOrder
    \/ WriteFullchain \/ WritePrivkey \/ Cleanup \/ RunDies \/ ComesDue

-----------------------------------------------------------------------------
(* Properties.                                                              *)

\* However a run ends, no TXT record of it stays behind, but for those whose
\* creation or deletion was not answered well and those of a run that died:
\* also when a later authorization, the propagation or the order failed
\* (order.ts:72-83).
NoRecordLeftBehind == phase = "idle" => records \subseteq excused
=============================================================================
