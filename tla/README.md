# Ostiarius in TLA+

Ostiarius is the gateway of a facility: a Node server on the venue LAN that verifies that a person
is physically there (passkey, face or a member of staff), signs an attestation of it, and hands the
attestation to the service that asked - Aedilis for attendance, Cernere for a second factor, Cocoiru
for its own check-in. One process serves everything; its concurrency is that of promises. Between
two `await`s a handler runs alone, and at every `await` any other handler, timer or answer may run.
That is the granularity of all modules here: **one action is one turn of the event loop**, from a
handler's start or the answer it awaited up to its next `await` or its response.

Most state lives in maps in memory and is gone after a restart; what must survive (credentials and
counters, face templates, the outboxes, the audit events) is in SQLite and is written synchronously.

## Inventory

| part | source (`src/server/`) | state it keeps | operations | talks to |
|---|---|---|---|---|
| On-site MFA | `onsite-mfa/*`, `cernere-attestation-submit.ts`, `routes/onsite-mfa*.ts` | sessions by id and by nonce, deadlines, retention | open, poll, face frame, passkey begin/finish, claim, settle | kiosk, face flow or WebAuthn, Cernere (HTTP, 10 s) |
| Passkey check-in | `passkey-checkin.ts`, `challenge-store.ts`, `identity-session-store.ts`, `routes/checkin.ts`, `routes/identity.ts`, `routes/kiosk-proximity.ts`, `attendance-delivery.ts` | one-shot challenges, bindings challenge -> session, identity sessions, signature counters, sessions in use | begin, finish in three mounted services, delivery to Aedilis | SQLite, Aedilis, face flow through the sessions |
| Face verification | `face/verification-flow.ts`, `face/matcher.ts`, `face/challenge.ts`, `routes/identity-face.ts` | votes, spoof and ambiguity counters, active challenge, per session | frame | Python sidecar, roster, identity sessions |
| Attendance delivery | `face/aedilis-outbox.ts`, `routes/identity-staff.ts`, outbox rows of `db.ts` | outbox rows, audit events | deliver, enqueue, retry pass every 30 s, staff override with a daily limit | Aedilis, SQLite |
| Cocoiru native sessions | `cocoiru-session-store.ts`, `routes/cocoiru-*.ts`, the SDK under `vendor/cernere-composite` | sessions, creations in flight, closed flag | exchange, run, revoke, sweep, shutdown | Cernere ("Cr"), five calls |
| Face enrolment and registry | `face/enrollment-session.ts`, `face/local-store.ts`, `face/review-service.ts`, `face/consent-*.ts`, `face/revocation-sync.ts`, `face/template-roster.ts` | enrolments, templates, photos, consent copies, revocation outbox, sync watermark | enrol, review, re-enrol, delete, pull consents and revocations | sidecar, Cernere, SQLite |
| Registration gates | `automatic-attendance.ts`, `routes/automatic-checkin.ts`, `venue-registration/*` | nonce ledgers with retention and capacity | claim a nonce, sign, submit | Cernere, GLab |
| HTTP security | `http-security/*` | request nonces, rate windows, allowed hosts | issue, consume, hit, refuse | every route |
| Kiosk authorization | `kiosk-authorization.ts`, `face/staff-session.ts` | browser sessions and staff sessions that expire | establish, check | the kiosk's routes |
| Mobile check-in | `mobile-checkin.ts`, `routes/mobile-checkin.ts` | - | log in, sign, profile, deliver | Cernere, profile client, Aedilis |
| Profile client | `vantan-user-client.ts` | a socket, requests in flight, a reconnect timer | request, reconnect, close | Cernere (WebSocket) |
| Service links | `cernere-service-token.ts`, `lan-route.ts`, `cernere-sync.ts`, `aedilis-register.ts` | token cache, base URL cache | log in, detect, sync | Cernere, Aedilis, the host's interfaces |
| Host files | `face/local-key.ts`, `face/backup.ts` | the key file, backup generations | load, generate, copy, rotate | disk, medium |
| Certificates, LAN DNS | `acme/*`, `lan-dns/*` | a certificate, an account key, DNS records | order, renew, publish | Cloudflare, ACME |
| Kiosk pages | `routes/kiosk*.ts` | timers, flows and texts in the browser | poll, send frames, confirm, review | the routes above |
| Wiring, configuration | `index.ts`, `config.ts`, ... | - | - | - |

How they interact: `index.ts` makes **one `ChallengeStore`** for check-in, identity, staff login,
the MFA kiosk, mobile check-in and Cocoiru, and a second one for kiosk proximity; each service keeps
its own bindings from a challenge to a session. **Identity sessions are shared** by the face path,
the identity passkey path, kiosk proximity and the staff override. The face path reads the
**roster**, which enrolment, review, deletion and the pulls from Cernere change. Every attendance
path ends at **Aedilis**, some with the outbox behind them (face, staff), some without (passkey).

What is hard in this system:

- a check made before an `await` and relied on after it (session state, daily count, roster, permit);
- several requests of one session in flight: frames, assertions, a frame and an assertion;
- stores that share challenges but not the sessions bound to them;
- entries that expire only when somebody looks, with deadlines compared by `>` here and `>=` there;
- answers that come late or never: of Cernere after a submission, of Aedilis after a delivery, of Cr
  after a binding;
- a restart, which forgets sessions and challenges but not what was sent;
- timers that start whether or not their last run has ended (retry pass, consent pull);
- pages whose timers and answers outlive the session they were set for;
- files and DNS records that a crash or a lost answer leaves half done.

`PROJECT.json` lists each place as a hazard at its line, with the properties that cover it.

## Modules

| module | models | composed with |
|---|---|---|
| `KioskSlot` | the promise of the MFA session store: one slot, claimed once, never retaken | refined by `OnsiteMfa` |
| `OnsiteMfa` | the MFA factor with kiosk requests, Cernere, the network, restarts | instantiates `KioskSlot` |
| `OnsiteMfaProofs` | theorems about `OnsiteMfa` | extends it |
| `PasskeyCheckin` | challenges, sessions, three services, delivery | the face path is the actions `FrameStart`, `FrameMoves`, `FrameIssues` |
| `FaceFlow` | frames, votes, challenge | the passkey path is `PasskeyIssues`, the registry `RosterChanges` |
| `AttendanceOutbox` | delivery, outbox, override limit | - |
| `CocoiruSession` | the bounded session store and the one-permit operation | - |
| `FaceRegistry` | enrolment, review, deletion, the pulls from Cernere, the revocation outbox | what `RosterChanges` of `FaceFlow` abstracts |
| `PasskeyCheckinProofs`, `FaceFlowProofs`, `AttendanceOutboxProofs`, `CocoiruSessionProofs`, `FaceRegistryProofs` | theorems about the module each is named after | each extends it |
| `VantanClient` | the WebSocket client of profiles: connects, sockets' events, requests | extended by `MobileCheckin` |
| `MobileCheckin` | logins by password or session, down to Aedilis, and the form | extends `VantanClient` |
| `LanGates` | rate limit, guard of sensitive routes, request nonces | - |
| `ShortLived` | venue nonces, facility challenges, kiosk and staff sessions | - |
| `CachedAnswers` | base URL, allowed hosts, service token | - |
| `Certificates` | runs of the certificate command | - |
| `FaceStorage` | the key file and the backups | - |
| `MfaPanel` | the page's MFA panel | the server is the session `OnsiteMfa` serves |
| `ReviewPanel` | the page's review panel | the server is `FaceRegistry` |
| `KioskPage` | the page's identity sessions, polls and frames | the server is `PasskeyCheckin` and `FaceFlow` |
| `ProximityPanel` | the page's panel for a login with the phone's passkey | the server is `PasskeyCheckin` |
| `EnrollPanel` | the page's enrolment panel | the server is `FaceRegistry` |
| `Services` | the twelve modules above side by side, with the fairness of each | extends them |
| `ServicesProofs` | theorems about the services of the server | extends `Services` |
| `PanelsProofs` | theorems about the pages, and the types of all of `Services` | extends `ServicesProofs` |

`Services` lets one part move in a behaviour (the variable `part`). They share no variable, so what
one does neither enables nor disables another, and each of its properties speaks of the variables of
one part only: it holds of all parts moving together if and only if it holds of that part moving
alone. Running them interleaved would multiply their states and show nothing more. The check-in and
the profile client do share state and move together.

`MC*` modules extend a module with the symmetry set and constants TLC needs. A module whose
neighbour is another module here takes from it one environment action, the weakest the neighbour's
code allows; that is how the modules stay small enough to be checked with two requests in flight.

Conventions. Variables named in the code keep their names; a variable that models a `Map` is a function
whose value "unborn" or "none" means absent. Variables under "history" exist only to state properties;
no guard reads them. Definitions that begin with `Mut` are mutated forms of the definition that follows
them: they are never used by a specification and serve to show that a property notices the fault.

### OnsiteMfa

`state`, `nonce`, `expiresAt` are `OnsiteMfaSessionStore.sessions`. `Swept` is `sweep()`, which
every operation of the store runs first; `Open` is the POST that answers 202; `Poll` stands for
the reads and refused POSTs, whose only effect is the sweep. A kiosk request waits in `pc[h]` for
verification (`FaceFrame`, `PasskeyFinish`) or for Cernere. `Verified` is
`completeOnsiteMfa`: claim, sign, send, in one turn. `Settle` is what follows the answer, the
failure or the 10 s timeout. Cernere and the network are external: a submission is a message that
may be received late, even after the kiosk gave up on it, or lost; an answer exists only while
somebody waits for it. `Restart` empties the store and forgets `opened`.

The face path and WebAuthn are reduced to "verified as u" or not. LAN and kiosk checks before each
handler keep no state and are left out. What the device sees is `View`.

### PasskeyCheckin

`Finish` runs to the await of `verifyAuthenticationResponse` and takes the challenge and
its session binding; a signature a client presents is one that an authenticator made over that
challenge, so an unknown challenge or a failed signature is `VerifyFails` or no action. `Verified`
signs and starts the delivery, `Recorded` and `DeliveryFailed` end it; a failed delivery may have
reached Aedilis. The three services share this code; they differ in the store they draw from
(`Store`), in the session checks (`MayIssue`, `NotBusy`) and in where the session comes from. The
deadlines are kept as the code compares them: `Consumable` with `>=`, `TakeSession` with `>`.
`counter` follows `updateCounter`, which compares with the row read before the await.

The face path works on the same sessions and does not wait for the passkey path. `frames` are the
sessions with a frame at the sidecar: `FrameStart` looks at the session, `FrameMoves` and `FrameIssues`
act on it after the await whatever has become of it, so that an issued session may be moved back to
scanning, challenging or fallback and be completed again. `reopened` is the history of that; what
frames decide is `FaceFlow`'s matter. A kiosk has the face path or has not (`faceOn`).

### FaceFlow

`FrameStart` is `process()` up to the sidecar; the seven outcomes of a frame are the branches after
it, in the code's order of tests: no face, spoof, then, if a challenge is set, the challenge, else
threshold, margin and vote. A frame is one element of `Frames`: what the sidecar sees, the nearest
roster entry and three levels of similarity. `overlap` is a history of "a frame met a session
another request was using", which separates the sequential from the concurrent case; `gap` and `weak`
are histories of frames between the votes and of faces below the thresholds in the challenge.

### AttendanceOutbox

`FaceIssued` and `Override` sign and start a delivery; `Delivered` and `NotDelivered` end it, the
second with the row that `enqueueOutbox` writes (`Enqueue`). `rows` is the table and `id` the key SQLite
gives a row, AUTOINCREMENT, so that a row enqueued later has the greater one. `RetryStart` reads the
due rows once into `pass`, and `RetryOk` and `RetryFailed` send them one after the other, the least key
first (`First`, the ORDER BY of `listDueOutbox`); passes overlap. `audited` is the event table that the
daily limit counts. `Crash` loses requests and passes; one that was being sent is lost for good
(status "lost"). Of the backoff only "due or not" is kept.

### CocoiruSession

`local` and `exp` are the entries of the store, `grant` is what Cr has, `req` the requests by the
call they await. `Pending` is `pendingCreations`; `HasRoom`, `Open`, `Current` are the code's
`create` guard, `assertOpen` and `assertEntry`. Every call to Cr succeeds, is denied or fails, and
for the calls whose failure says nothing about the other side both outcomes are possible. `Close` is
the shutdown, `Disconnect` and `LeaveVenue` change the request's signal and its LAN test.

### FaceRegistry

`tmpl`, `photo`, `copy`, `since` and `row` are the SQLite rows of a person, the watermark and the
revocation outbox; `enr`, `student`, `consent` and `shots` are the enrolments in memory. Consents are
numbered in the order in which Cernere records them (`given`). A request of an enrolment that waits
holds what the handler holds: `ask` the consent Cernere is recording, `upload` the consent of the
session when the photo came. `ConsentRecorded` looks at the session again, `PhotoStored` does not, as
in the code. `Commit` is both `/identity/enroll/commit` and the review's "reenroll"; `Promote` and
`Reject` are the rest of the review. `PurgeAndCopy` is the deletion of a person's rows together with
the copies that a pull of consents stores. The two writes of an upload and the deletion followed by
its outbox row are one turn each, and the process may die between them (`PhotoAndCrash`,
`DeleteAndCrash`). A pull is two requests; time and watermark are read before the first
(`PullStart`), the watermark is written after it (`ApplyRevs`), and a failure of either leaves the
rest as it was. A revocation through the outbox names the person and not the consent, so Cernere
withdraws what the person has by then (`Revoke`).

A person may leave (`Leave`): Cernere lists a revocation, and from then on no consent of that person
(`CernereListsConsents`; `cernere-face-template.md` 24: the consents of those at the facility). With
`ConsentsListed` FALSE Cernere has not got that list at all (`revocation-sync.ts` 11). An enrolment that
was under way when the revocation was pulled may then store a template nobody ever deletes.

Left out: consents recorded without Cernere (`consentSource` local), the exchange of the student's
code, older policy versions, the 365 days' rule of the copy and the 30 days for which Cernere keeps
a revocation. One request of each kind is in flight per enrolment, and frames after the last one
required are not taken.

### VantanClient and MobileCheckin

`connect()` is split at its await for the token: `Start` and `ReconnectTimerFires` begin it,
`ConnectFails` and `TokenArrives` end it. `sock` follows each socket through its events; a failed
handshake reports its error and may owe its close event until after the next socket was made.
`ScheduleReconnect` is `scheduleReconnect()` with both of its early returns. `Ask` is `request()`; a
request ends by `Answered`, its timer (`RequestTimesOut`), a close event or `CloseClient`.

A login of `MobileCheckin` waits for Cernere (`LoginRefused`, `LoginAccepted`), for its profile
request, for Aedilis (`DeliveryEnds`), and what its form shows is `page`. A profile that fails is no
profile: `ProfileSettled` takes either end. The password and the session route differ in what they send
to Cernere only.

### LanGates

A request passes all gates in one turn, so `Request` is the whole chain in the order of
`installLanHardening`: count (`Hit`, with `SweptBuckets` before it), guard (`GuardPasses`), nonce
(`SpendsNonce`, `ConsumeNonce`). Routes are one representative of each class of `lan-routes.ts`;
devices are records of the address, TLS and relay headers that `classifyTransport` looks at. `through`
is the set of requests the limit let pass, each with its window, its number in it and its time
(`LetThrough`); `admitted` counts what a nonce let in.

### ShortLived

Four maps of things that expire. `RegisterVenue` is the claim with its sweep (`Seen`, `Reused`), then
the signature; `venueSigned` and `challengeSigned` count the signatures made while the nonce or the
challenge was good. `SubmissionEnds` is Cernere's answer, which changes nothing about the claim.
`CheckInAutomatically` checks the challenge's times (`ChallengeValid`), drops what has expired
(`Unexpired`), refuses a replay (`Replayed`) or a full ledger. `AuthorizeByCookie` and `GetStaffSession`
look an entry up and delete it if it has expired. `RestartForgets` empties all of them and the history,
since nothing is promised across a restart: a challenge used before it can be used again after it.

### CachedAnswers

`MoveNetwork` changes the host's address. The base URL is found by `AskBaseUrl` (what the interfaces
list at that moment), which takes up to `DetectTime`, and kept by `DetectionEnds`; the allowed hosts are
listed without an await. A login for the service token is asked, granted by Cernere and answered in
three steps, since the life of the token counts from the second for Cernere and from the third for the
gateway. If the answer names no usable life (`said`), the gateway assumes a fixed one (`AssumedLife`),
and such a token is good only if its life is no shorter. Callers that share an `inFlight` promise resume
together and are one step.

### Certificates

`phase` is the await at which the run waits: account and order, a record, its verification, the
order's end, two files, the cleanup. Each call may fail, be answered or (for records) take effect with
its answer lost; `RunDies` is a crash at any of them. `excused` are the records that no code could
know of: lost answers, failed deletions and crashes.

### FaceStorage

`file` is `face-keys.json`: absent, torn (no JSON) or good, with the keys whose text is in it (`keys`)
and those the loader would accept (`valid`). `loaded` is what the process read, `row` the key that
sealed a person's template or photo. `LoadLocalFaceKeys` stops at a torn file, takes an absent one, one
without a list and entries that are no keys for nothing (`ReadKeys`), generates what is then missing
and, only if something was, writes the file anew over what it held. Rows stay sealed when the file
goes (`FileIsRemoved`). `FileIsDamaged`, `EntriesAreSpoiled` and `OperatorMends` are the disk and the
operator; `lost` and `spoiled` are histories of the keys they took away.
`DieWritingKeys` is the crash in between. `OperatorAddsKey` is the rotation the file format allows. A
copy of the database begins, succeeds, fails or breaks off with the process; `Rotate` removes what
`Excess` names, or fails to.

### MfaPanel, ReviewPanel, KioskPage, ProximityPanel, EnrollPanel

The page is one thread, split at each `await fetch` and each timer. `MfaPanel`: the chain of polls
(`poll`), and per press of a button a flow (`confirm`) that ends with a result, a fallback or an
exception, whatever the panel shows by then. `ReviewPanel`: requests that are out (`out`) carry the
candidate they were sent for and the candidate the text or enrolment in them belongs to; their
answers change the panel as it is by then. `KioskPage`: chains of polls and of frames, of which
`stopPolling` knows one timer; a frame is sent for the session that is current, whoever began the
chain. `ProximityPanel`: per press one flow and the await it is at; `proxAborted` is the signal of its
controller, and the server may take the last request (`FinishHandled`) after the page gave it up.
`EnrollPanel`: the set `on` of enabled buttons; a request carries the enrolment current when it was
sent, is taken by the server and answered in two steps, and may be lost in either. Buttons are pressed
as often as the bounds allow, also while a request is out.

## Runs

| run | instance | distinct states | what it shows |
|---|---|---|---|
| `onsite_mfa` | 2 nonces of one user, a second user, 2 sessions, 2 kiosk requests | 465,000 | one session served at a time, one attestation and one submission per session, no replay of a nonce, "submitted" means accepted by Cernere, and `KioskSlot` is implemented |
| `passkey_checkin` | 2 challenges, 2 sessions (1 if the face path is mounted), 2 credentials, 2 requests | 385,000 | a challenge makes one attestation, completes only its own session, a failed delivery completes none; the proximity route completes a session again only after a late frame reopened it |
| `passkey_reissue` | as above, 1 session | violation | a session issued during the await is issued again |
| `face_flow` | 2 users, 1 session, 2 overlapping frames, challenge required | 267,000 | what an issued session rests on |
| `face_match_held` | as above, 1 request | violation | one attestation whose votes were not consecutive and whose match was not kept up during the challenge |
| `attendance_outbox` | 2 deliveries (one refused for ever), 1 member of staff, limit 1, 2 passes, 2 crashes | 11,200 | nothing pending is lost, it is recorded in the end, the daily limit holds for overrides that do not overlap |
| `staff_daily_limit` | as above | violation | overrides that overlap exceed the limit |
| `cocoiru_session` | 2 tokens, 2 requests, capacity 2 | 160,000 | capacity, finality of logout and shutdown, no grant left behind |
| `face_registry` | 2 people of whom 1 enrols and may leave, 1 enrolment, 1 consent, 1 deletion, 1 pull at a time, 1 restart | 53,000 | no photo alone, templates only under their person's consent, no revocation missed, withdrawals and deletions take effect in the end |
| `services` | each part of `Services` alone: 2 logins, 2 sockets; 3 devices, limit 1; 3 challenges, capacity 2; 2 addresses; 2 authorizations, 3 runs; 3 keys, 2 generations, 3 backups; 2 sessions, flows or enrolments per page, 2 shots | 171,000 | the client tries until it is closed and no more, logins are answered, no burst beyond twice the limit, a refused request keeps its nonce, spent things stay spent, caches are fresh, sealed faces stay readable, a whole backup survives, no DNS record is left, panels come back and tell the truth, texts stay with their candidate, polling ends |
| `revoked_returns` | 1 person, no restart | violation | a commit after the revocation was pulled brings the template back |
| `keys_replaced` | the instance of `services` | violation | a key file that is JSON without usable keys is overwritten with new ones |

### Bounds

- *Two of everything that races.* Every race of this code that the hazards name is between two
  requests, two passes or two sessions; a third adds no new kind of interleaving, since the handlers
  of one kind are alike and share no count other than the ones modelled (capacity, limits,
  votes). `MaxPending` and `Capacity` are 2, so both limits are reached.
- *The clock.* `MaxTime` is 2 or 3 and the lifetimes 1 or 2, so that an entry is seen before, at and
  after its deadline, and in `onsite_mfa` through deadline plus retention plus a ticket's whole life.
- *Counters.* Face: `VotesNeeded` is the code's 3; spoof 2 and ambiguous 2 instead of 3 and 10 (the
  counters only compare with their maximum). `Upto` caps them: beyond the maximum the code counts on
  without any effect.
- *Assertions.* `MaxUses` = 1 signature per authenticator, `MaxCeremonies` = 1 open passkey challenge
  per MFA session, `MaxProofs` = 1 proof per Cocoiru session, `MaxCrashes` = 2. Each bounds something
  the environment may repeat; the second repetition starts from the same state of the code.
- *PasskeyCheckin.* `MaxFaced` is 1: a kiosk with the face path has one session, one without it two.
  Frames act on their own session only, and two sessions matter for which of them a challenge belongs
  to.
- *FaceRegistry.* `MaxTime` is 1 and `Overlap` 0: only the order of a revocation, a request and an
  answer counts, and with no overlap nothing hides a watermark that is too late. `Shots` is 1 instead of
  6 (only "enough" is asked). `Applicants` is one of the two people: with one enrolment only one of them
  can have any, and the other is there to be approved by mistake with it. Two overlapping pulls make the
  state graph too large for the liveness properties; for them `NoRevocationMissed` and the invariants
  are proved instead, for any number of pulls. A second enrolment of one person is likewise left to the
  proofs.
- *Services.* Two of each thing that follows another (sockets, sessions of a page, addresses, keys of a
  purpose, authorizations), three where a third one shows the rotation or the sweep (backups,
  keys, runs). The lives of venue nonces, facility challenges and sessions are 2, so that a thing is
  used, used again while it lives and met at the sweep on its deadline; other lives are 1, and clocks run
  past all of them. The rate's window is 3, so that a stretch of a
  window can straddle two. `MaxRequests` = 2 and `MaxOut` = 2 let two answers come
  in either order; `EnrollShots` is 2, so that a shot is the last one or not.
- `passkey_reissue`, `revoked_returns`, `face_match_held` and `staff_daily_limit` use the smallest
  instance that shows the divergence.

Symmetry is declared over sets whose members are interchangeable. It is not used in the runs that
check liveness (`attendance_outbox`, `face_registry`, `services`).

Deadlock is checked except in `attendance_outbox`, `cocoiru_session` and `services`. There the instance
really ends: all attestations are delivered, the store is shut down and nothing is in flight, or the
clock, the logins or the runs of a part are used up. (A server that has shut down is meant to stop.)

The types of every module are written as its `TypeOK` (in `Services`: `ServicesTypeOK`) and proved for
every module. `ServicesTypeOK` is also among the properties of `services`; the other runs are kept
for what could go wrong.

### Fairness

`AttendanceOutbox`, `FaceRegistry` and `Services` need it. `AttendanceOutbox`:

- weak fairness of starting a pass: `setInterval` fires every 30 s (`index.ts`);
- weak fairness of the end of each send: `fetch` ends in an answer or an error - the first delivery
  by its 10 s timeout, the retry, which sets none, by the client's default limits;
- weak fairness of a row becoming due: the delay is capped at 15 minutes;
- strong fairness of an accepted retry, for the attestations that Aedilis does not refuse for ever:
  a row that is sent again and again gets through once. This is an assumption on the network
  and on Aedilis, and the weakest under which anything can be promised.

`FaceRegistry`:

- weak fairness of `PullStart` and `RetryStart`: the timers of 15 minutes (`cernere-sync.ts`) and 60 s;
- weak fairness of the end of each request, in an answer or a failure;
- strong fairness of each of the two pulls being answered by Cernere and applied here, and of a
  revocation that is sent again and again: each gets through once. Where Cernere has no list of consents
  (`ConsentsListed` FALSE) the second pull is never answered and nothing is assumed of it. The first
  half of `WithdrawalIsEnforced` - what was not yet pulled when it was revoked - rests on the pull of
  revocations alone, the second on the list of consents, and so speaks of those still at the facility.

`Services`:

- weak fairness of the page's timers: a browser fires them;
- strong fairness of polls being answered: a poll is sent again after each loss, and one of them gets
  through; `PollLost` and `PollSessionLost` may happen any number of times before;
- weak fairness of an identity session's expiry while no frames are sent for any: its deadline passes,
  and only an accepted frame or an issue puts it off (`touch`, `verification-flow.ts` 16). With frames
  going on a session may live for ever, which is why `PollingEnds` is stated under frames that end;
- weak fairness of a login's next step: requests to Cernere and Aedilis end in an answer or a failure
  (the delivery by its 10 s), and of the profile request's own timer, which is what ends a request over a
  connection that never answers;
- weak fairness of what the proximity panel waits for (`ProximitySettles`): its 55 s timer fires, a
  request whose signal is aborted fails, the last request ends by its 15 s deadline or an answer. The
  creation of the session has no deadline: it is assumed to be answered or to fail.

No fairness is assumed of crashes, kiosk requests or the people at the kiosk.

## What is proved

`OnsiteMfaProofs` proves for any sets of sessions, nonces, users and requests and any lifetimes that
meet `MfaAssumption` - a ticket lives no longer than the session's deadline plus retention, the
relation that the header of `session-store.ts` states:

| theorem | statement |
|---|---|
| `TypeCorrect` | `Spec => []TypeOK` |
| `OneServedHolds` | at most one session is served |
| `OneAttestationPerSessionHolds` | a session is claimed once |
| `ReplayRefusedHolds` | a nonce is not opened twice within its ticket's life |
| `SubmittedIsConfirmedHolds` | what is shown as submitted was accepted, for the right user |
| `ImplementsSlot` | `Spec => SlotSpec`: the store implements `KioskSlot` |

The argument. None of the invariants is inductive as it stands, and each is strengthened by what the
code keeps in other variables:

- `TypeInv` adds that a request that is not idle names a session, and that a session that was ever
  opened has a nonce.
- `OneServed` is inductive given the types: `Open` requires that no session is active after the
  sweep, and no action makes a session served again. The step lemma `SessionsMoveForward` says how a
  session may move (`Forward`); the refinement uses it as well.
- `Claimed`: a request that awaits Cernere holds a session in "submitting", and no two hold the same.
  `SignedOnce`: a session with an attestation has left "waiting" for good, and has only one. A restart
  is why this says "not waiting any more" and not "submitting".
- `Retained`: a session in `opened` is still in the map until deadline plus retention; from this and
  the assumption on the lifetimes follows that an opened nonce is refused while its ticket lives.
- `Confirmed` links sessions, messages and answers: what is on the network was signed, and a positive
  answer means that the session's attestation consumed the ticket of its nonce.
- `ImplementsSlot` maps each action to `Take`, `Claim`, `Release` or a stutter. `Tick` may be a
  release (a deadline passes while nobody looks), and the sweep is always a stutter.

`FaceRegistryProofs` proves for any people, enrolments, consents, overlapping pulls and restarts
(`RegistryAssumption` only asks that the bounds are numbers and that `None` is none of the values it
stands beside):

| theorem | statement |
|---|---|
| `TypeCorrect` | `Spec => []TypeOK` |
| `PhotoNeverAlone` | no photo without a template |
| `TemplatesAreConsented` | a template stands under a consent of its own person |
| `NoRevocationIsMissed` | `Spec => NoRevocationMissed` |

- `TypeInv` adds to the types `Held`: every consent an enrolment holds, has asked for or has handed
  to an upload was given by its student. It is what makes a late upload or commit harmless for
  `TemplateIsConsented`.
- `FaceSteps` says once what any of the thirty steps may do to templates and photos; both invariants
  follow from it.
- `PullsKnow` strengthens `NoRevocationMissed`: an answered pull holds every revocation from its
  watermark up to the time of its request, since what is revoked later carries a later time. This is
  where the clock shared by Cernere and the host is used; in the code, the overlap of 60 s stands in
  for it.

`PasskeyCheckinProofs` proves, for any challenges, sessions, credentials, requests and times, under
`PasskeyAssumption`:

| theorem | statement |
|---|---|
| `TypeCorrect` | `Spec => []TypeOK` |
| `ChallengesAreSpentOnce` | a challenge makes one attestation and is held by one request |
| `OwnSessionIsCompleted` | it completes only the session it was begun for |
| `IssuedSessionsAreRecorded` | an issued session has an attestation that Aedilis recorded |
| `ProximityCompletesAgainOnlyReopened` | the proximity route completes a session again only if a frame moved it back since |

- `TakenOnce` is what makes the first inductive: a request in flight holds a challenge that is used, and
  while it verifies no attestation carries that challenge; only `Finish` takes one, and only a live one.
- `OwnSession` adds that a request in flight carries the session and the service its challenge is bound
  to. The bindings are written before the challenge can be taken and never after.
- `OneProximity` adds the set `busy`: a proximity request holds its session there alone; a session the
  route completed is issued still or in `reopened`, and the request that passed the check "not issued"
  is the first to complete it since.

`FaceFlowProofs` proves under `FaceAssumption`, with and without the challenge being required:

| theorem | statement |
|---|---|
| `TypeCorrect` | `Spec => []TypeOK` |
| `AttestationsHaveEvidence` | enough matches and, where required, the gesture of the person attested |
| `SessionsAttestOnePerson` | with the challenge required a session attests one person |
| `AttestedIsOnTheRoster` | the person is on the roster at the moment of the attestation |
| `SequentialSessionsEnd` | the end of a session whose frames never overlapped is final |

- `Evidence`: votes are no more than the matches of the person they are for, a challenge is set only
  after the last vote and counts only that person's movement, and a session that attested
  somebody still has the challenge of that person, which is why late frames attest nobody else.
- `SeqInv`: as long as frames did not overlap, at most one frame of the session is under way, and none
  when the session has ended.

`CocoiruSessionProofs` proves under `CocoiruAssumption`:

| theorem | statement |
|---|---|
| `TypeCorrect` | `Spec => []TypeOK` |
| `EndIsFinal` | a session that was logged out, replaced or denied issues no proof |
| `ShutdownEndsEverySession` | after `close()` no session is kept or published |
| `CapacityIsKept` | sessions and creations never exceed the capacity |
| `GrantsAreAccountedFor` | a grant Cr bound has an owner or was given up in a known way |

- `SessInv`: a creation at the binding owns its token alone, a request that runs was admitted to a
  session, and what has ended is gone. `Moves` says once what a step may do to tokens, requests and
  grants; each property then follows from the moves instead of from each action anew.

`AttendanceOutboxProofs` proves under `OutboxAssumption`, for any number of passes and restarts:

| theorem | statement |
|---|---|
| `TypeCorrect` | `Spec => []TypeOK` |
| `PendingAttestationsAreKept` | what is pending is in the outbox or recorded |
| `AcknowledgedRowsStayGone` | no pass brings an acknowledged row back |
| `SequentialOverridesKeepTheLimit` | overrides made one after the other keep the daily limit |

- `OutboxInv`: what is in the outbox, was acknowledged or was read by a pass has left the delivery that
  may enqueue it, so that a row is enqueued once.
- `LimitInv`: of the overrides of one person that do not overlap, at most one is under way, and it was
  let in with room left; so the audit event it writes stays within the limit, although
  `OverridesToday` counts only those written.

`ServicesProofs` proves of the services of the server, under the assumptions of their modules
(`OneMoves`: a step of `Services` is a step of one part, so each proof looks at one part only):

| theorem | statement |
|---|---|
| `ClientRetriesUntilClosed` | the profile client has a retry ahead until it is closed, and nothing afterwards |
| `NoBurstPasses` | at most twice the limit in any stretch of one window, for every limit and window |
| `NonceSurvivesRefusal` | a valid nonce leaves the store only by letting a request in |
| `CapabilitiesAreSpent` | nonces and challenges are signed for once, sessions honoured within their life |
| `CachedAnswersAreFresh` | no cached address or token is used beyond its life |
| `RecordsAreCleanedUp` | no run of the certificate command leaves a record, but for lost answers and crashes |
| `SealedFacesStayReadable` | every sealed row has its key, unless that key was taken out of the file from outside or by a write that broke off |
| `AGoodBackupSurvives` | a whole backup stays on the medium |

- `GatesInv`: each bucket accounts for the requests of its own window (`Accounts`); the windows of one
  key do not overlap and number their requests (`Apart`, `Inside`). A stretch of one window
  meets at most two of those windows (`TwoWindows`), and in each the requests map one to one to
  1..`Limit`.
- `VenueKept` (`CapabilitiesAreSpent` counts signatures): two signatures for one venue nonce lie at
  least the retention apart; as Cernere takes a nonce no longer than the retention (`VenueLife <=
  VenueRetention`), they are not both within its life.
- `CacheInv` bounds how far in the future a cache may expire, and says of the detection under way that
  the address it read was the host's when it began. `CertInv` says that every record is in `created` or
  excused while a run goes on. `KeysInv` keeps the process's keys within those the file has and those
  taken from it (`lost`, `spoiled`), and gives a running process a key of either purpose; that a file is
  overwritten only with the keys read from it and new ones is used there. `BackupInv`: the copy under
  way is the newest generation; the rotation removes only after a copy that succeeded, which it keeps.

`PanelsProofs` proves of the pages, and concludes with the types:

| theorem | statement |
|---|---|
| `ReasonsAreAboutTheirSubject` | a rejection carries the reason typed for that very candidate |
| `PanelsAreTruthful` | nobody confirmed is told to try again, nothing is called complete that is not stored |
| `TypeCorrect` | `Spec => []ServicesTypeOK`, all twelve parts |

- `ReviewInv`: the texts on display are those of the candidate who is open, since opening one empties
  them; late answers change neither a text nor the candidate.
- `ProximityInv`: before the last request is sent the server knows nothing of a flow, and it
  never learns of one that was told to try again.
- `EnrollInv`: what is stored is stored whole and for good, and an answer "ok" to a commit names
  something stored, however late it comes.
- `PageInv` adds to the types that the sessions made and those being made fit the bound.

Model-checked only: the liveness properties (`PendingIsRecorded`, `WithdrawalIsEnforced`,
`DeletionReachesCernere`, `LoginsAreAnswered`, `PanelsComeBack`, `PollingEnds`) and the violations.
Every invariant and every action property of a passing run, and the refinement, is a theorem above. Out
of the prover's reach and therefore left to TLC: liveness under fairness, `ENABLED`, and induction over
data. What the proofs assume of the constants is in the modules' `ASSUME`s: bounds are numbers, `None`
is none of the values it stands beside, and the relations of lifetimes the code states (a ticket's life
in `MfaAssumption`, `VenueLife <= VenueRetention`).

## Where the code and its documents disagree

Each of these has a run that shows it (the trace is TLC's) and an entry in `PROJECT.json`.

1. `kiosk-proximity-login.md` 22 says that an issued session cannot issue again. The check comes before
   the delivery is awaited; the face path or the identity passkey path may issue the session during
   it, and it is then issued a second time (`passkey_reissue`). A second way is in the model too, a face
   frame that started before the session was issued and moves it back afterwards (`FrameMoves`), and it
   is the only one by which the route itself completes a session twice (`CompletesAgainOnlyReopened`).
2. `face-verification.md` 36 asks for three *consecutive* frames. A frame without a match leaves the
   votes as they are, so that the three may be any distance apart (`face_match_held`).
3. `face-verification.md` 53 asks that the match be kept up during the challenge. Only the nearest
   roster entry is compared, not the threshold (`face_match_held`: one attestation breaks both sentences).
4. `passkey-fallback.md` 47 promises a daily limit of overrides. Overrides that overlap each count
   without the others (`staff_daily_limit`).
5. `template-roster.ts` 3 admits to the roster only templates whose consent is not withdrawn. An
   enrolment that was open when the revocation was pulled stores its template afterwards and is
   matched until a later pull (`revoked_returns`). For a person who has left no pull lists the consent
   any more, or there is no list, and the template stays although `biometric-data-policy.md` 58 keeps
   templates only while the person is at the facility.
6. The comment at `local-key.ts` 74 leaves a broken key file to the operator, since new keys would make
   every registration unreadable. That holds of a file that is no JSON; JSON without a list of keys, or
   with entries that are not keys, is read as empty (lines 77-78) and overwritten (`keys_replaced`). A
   file that is missing while sealed rows are stored gets new keys without a word (line 121).

Seen in the smaller services and pages, not stated as findings for the same reason as below:
`fullchain.pem` is written before `privkey.pem`, so that a crash in between leaves a pair that does not
match, which `renew` then takes for valid (`order.ts` 66, `renewal.ts` looks at the certificate only); a
photo that arrives late is shown beside the details of the candidate opened since
(`kiosk-review-panel.ts` 115); a late result of an earlier MFA session disables the buttons of the one
shown (`kiosk-mfa-panel.ts` 53); the answer to an old session's poll clears the timer of the new one and
puts its text on the page (`kiosk.ts` 149); frames refused because their session is over have no
`state`, and since the page does not look at the status they go on every 200 ms until the page is left
or another session takes them over (`kiosk.ts` 210-215); a running chain of frames keeps the session of
a passkey alive and may issue it, since frames name the session that is current; a restart forgets the
facility challenges used before it; two presses of the enrolment's start button with the codes of two
students, answered in the other order, leave the first student's enrolment current while the second one
stands before the camera (`kiosk.ts` 279: only the answer disables the button, and the page shows no
name); a cancellation that overtakes the answer to the commit tells the person that the enrolment was
broken off although it is stored (`kiosk.ts` 334, 345).

Seen while modelling and not stated as a finding, since no document promises otherwise or no state
of a model shows it: a lost answer of Cernere is shown as rejected although the nonce is spent;
`passkey-fallback.md` says that the sync deletes revoked passkeys while `cernere-sync.ts` only
upserts; the signature counter may go back when two assertions are verified in the other order; a
crash between a failed delivery and `enqueueOutbox` loses the attestation; the face path signs
although the session expired during the await; a photo uploaded for an active person makes the
template pending again; a revocation pulled twice within the overlap, or sent late by the outbox,
deletes a registration made under a newer consent (`at` is not compared); a crash between the
deletion at the kiosk and its outbox row leaves Cernere uninformed; `biometric-data-policy.md` 79
has the revocations applied before matching resumes after a restore, while `cernere-sync.ts` starts
the first pull without holding anything back.

## What is not modelled

- Wording of errors, HTML, markup and layout, logging.
- The formats, keys and signatures of attestations (an attestation is the tuple of its fields, and nobody
  else can make one), and `attestation*.ts`, `location-statement.ts`: pure functions of their inputs.
- The mathematics of embeddings (a comparison has three levels), WebAuthn's cryptography (an outcome),
  sealing (a row names its key).
- Allowlists, headers, TLS set-up and configuration, which keep no state; the migrations of `db.ts`,
  which run once at the start. The rows themselves are in the modules that use them.
- The sync of passkeys (`cernere-sync.ts`: one answer, one upsert per row), the registration at Aedilis
  (up to four tries in a row at the start), LAN DNS (one record at the start), the restore of a backup
  (an operator's command): each runs alone and to its end.
- In the enrolment panel: the upload of a photo (its server side is in `FaceRegistry`), the two awaits
  of one shot before its request, a camera that opens only after the consent's answer was handled.
- In modelled parts: consents recorded locally, the 365 days' rule of a consent's copy and the 30 days
  Cernere keeps a revocation, the staff login, a key of the wrong length in the key file (the start
  stops).
- Covered in part: `RetriesUntilClosed` speaks of the current socket of the profile client, not of one
  replaced while open; `ReasonIsAboutSubject` of texts and enrolments, not of a late approval that acts
  on the candidate open by then, nor of a late photo; `PollingEnds` leaves out that beginning a passkey
  also prolongs the session; `NoRevocationMissed` is run with one pull at a time, pulls that overlap
  are covered by its proof.

## Plan

Written so far: the modules above - the factors with the hardest concurrency first, then the smaller
services and the pages. What is left:

1. `FaceRegistry`, continued: the 365 days' rule, two enrolments of one person (a run with its own
   bounds), the abstract registry "matched only while consented" that the detailed one implements up to
   the next pull.
2. A one-shot set as the abstract specification of the challenges, nonces and ledgers, and the modules'
   refinement of it, checked and then proved.
