# A TLA+ model of solana-go

solana-go is a Go client library for Solana: key and message types, a transaction
builder and signer, the wire format, a JSON-RPC client over HTTP, a WebSocket
subscription client and typed builders for the native programs. This directory
holds TLA+ modules for the parts of it in which order, concurrency, failure or
arithmetic decide whether the code is right; the TLC configurations that check
them; and TLAPS proofs for arbitrary instances. `PROJECT.json` is the machine
readable index: components, runs, the lines each definition models, findings,
hazards and theorems.

## 1. Inventory

| Component | State | Operations | Interacts with | Hard part |
|---|---|---|---|---|
| WebSocket client, `ws/client.go` | connection, `mu` with `closed`, `pendingReqs`, `subscriptions`, request counter; `done`; per subscription a pending reply and a `Done` channel | `DialWebSocket`, `Subscribe`, `SubscribeOneShot`, `Unsubscribe`, `Close`, read loop with `handleReply`, `dispatchIncoming` | server frames, user callbacks, any number of calling goroutines | every operation is split over several critical sections; three places close `pending.done`; `Close` is run by callers and by the read loop |
| Typed subscriptions, `ws/util.go`, `ws/wsclient_*.go` | one buffered channel each | decode, `sendOrDropOldest`, `Recv` | read loop (producer), user (consumer) | three selects with the consumer running in between |
| Send and confirm, `rpc/send.go` | attempt, deadline, last valid block height | both `SendAndConfirm...`, `confirmSignature` | JSON-RPC client, cluster | resubmission against an asynchronous cluster, lost answers, expiry off by one, deadlines |
| JSON-RPC transport, `jsonrpc/client.go`, `batch.go`, `call_context.go`, `retry.go` | atomic id counter, retry policy | `CallContext`, `BatchCallContext`, `sendRaw` | HTTP server, context | shared ids, answers out of order or missing, retry and cancellation |
| Message builder, `message_builder.go` | none (pure) | `NewMessage`, `NewMessageV0` | `Message.ResolvedAccountKeys` must invert it | one index space built in two places; uint8 indices |
| Transactions and signing, `transaction.go`, `signer.go` | signature slots | `Sign`, `Marshal`, `VerifySignatures` | signers that may fail | partial failure in the middle of a list of signers |
| Wire format, `message.go`, `message_v1.go`, `encoding/reader.go`, `builder.go`, `bincode.go`, `entry.go` | cursor | marshal, decode, `SerializedSize` | transactions | three formats told apart by one byte, lengths from untrusted input |
| Reflective decoder, `encoding/decode_plan.go`, `codec.go`, `borsh.go` | `decodePlanCache`, shared by all goroutines | `DecodeTo`, `BinDecodeTo`, `BorshDecodeTo`: load or compile a plan, run it | types that unmarshal themselves | compilations that race; memory offsets through nested arrays, slices and pointers; types that contain themselves; lengths from untrusted input |
| Wide integers, `encoding/u128.go`, `large_int.go` | none | conversions to and from bytes, words, `big.Int`, text | account state, JSON | word order, sign of the top word, values that do not fit |
| Account state decoders, `programs/token/state.go`, `programs/token2022/state.go`, `programs/address-lookup-table/state.go` | none | fixed layouts, TLV extensions | `Reader` with its sticky error | optional fields, truncated or repeated entries, extensions in map order |
| Program derived addresses, `pda.go` and its users | none | `CreateProgramAddress`, `FindProgramAddress`, associated token and lookup table addresses | hash, curve | limits, which bump is chosen |
| Transaction errors, `rpc/transaction_error.go` | none | `DecodeTransactionError` | send and confirm, simulation, notifications | one field decides between success and failure, and comes as text or in a dozen Go types |
| Error classification, `jsonrpc/classify.go` | none | `IsBlockhashExpired`, `IsRateLimited`, ... | send and confirm | matches texts of other programs |
| Precompile instructions, `programs/ed25519/instructions.go`, `programs/secp256k1/instructions.go` | none | `NewVerifySignature`, `NewVerifyEthSignature`, `NewSignatureVerifyInstruction` | the precompile reads the offsets | offsets into the data they are part of, narrow counts and lengths |
| Priority fee estimate, `rpc/priorityfee.go` | none | one RPC call, sort, percentile | JSON-RPC transport | an index |
| RPC method wrappers, other program builders, keys, mnemonics, JSON types | none | constructors and conversions | JSON-RPC transport | none of their own |

What makes each correct: the WebSocket client neither panics nor loses a handle or
a waiting caller, and `Close` ends everything; a subscription's channel keeps the
newest notifications in order; a resubmitted transaction never has a rival that
can still be included, and success is reported only for what is on chain; every
JSON-RPC answer reaches the element that asked; every compiled index names the
account the instruction named, with the rights it asked for; a transaction survives
marshalling, has one encoding of a known size, and no signature gets lost on its way;
all goroutines run one plan per type, and running it inverts the wire format; account
state, wide integers and derived addresses are what their bytes say; a failed
transaction is never taken for a successful one, nor for another failure; and a
precompile finds at its offsets what the caller passed.

## 2. Modules

| Module | Models | Kind |
|---|---|---|
| `WsClient` | `ws/client.go` | state machine, one step per critical section, channel operation or callback |
| `MCWsClient` | | small instances, symmetry |
| `WsClientProofs` | | inductive invariant and nine theorems |
| `LossyFifo` | what a subscription's channel promises | abstract specification |
| `SubscriptionChannel` | `ws/util.go`, the typed subscriptions | implements `LossyFifo` |
| `SubscriptionChannelProofs` | | inductive invariant, the refinement and two more theorems |
| `SendConfirm` | `rpc/send.go`, the HTTP retries under it, a cluster | state machine |
| `SendConfirmProofs` | | inductive invariant and four theorems |
| `JsonRpc` | `jsonrpc/client.go`, `batch.go`, `call_context.go`, `retry.go` | state machine |
| `JsonRpcProofs` | | inductive invariant and two theorems |
| `MessageBuilder` | `message_builder.go`, `Message.ResolvedAccountKeys` | pure operators, inputs built by actions |
| `MCMessageBuilder` | | lookup tables of the run |
| `MessageBuilderProofs` | | what each operator of `MessageBuilder` computes, and five theorems |
| `SequenceLemmas` | | induction on numbers and sequences, recursive functions, `FlattenSeq`, `Min` and `Max` |
| `Wire` | `encoding/bincode.go`, `message.go`, `message_v1.go`, `entry.go`, marshalling of `transaction.go` | pure operators |
| `TxFlow` | `transaction.go`: signing by several parties, over `Wire` | state machine |
| `TxFlowProofs` | | what `Wire` computes, in both directions, two inductive invariants and nine theorems |
| `MCTxFlow` | | messages of the run, a signature function, the decoder's inputs |
| `PlanCache` | `decodePlanCache` and `decodePlanFor` of `encoding/decode_plan.go` | state machine |
| `PlanCacheProofs` | | inductive invariant and four theorems |
| `Codec` | `encoding/decode_plan.go`, `codec.go`, `borsh.go`: compiling and running a plan | pure operators |
| `Accounts` | `encoding/reader.go`, token, token-2022 and lookup table state | pure operators |
| `WideInts` | `encoding/u128.go`, `large_int.go` | pure operators |
| `Pda` | `pda.go`, associated token and lookup table addresses | pure operators |
| `TxError` | `rpc/transaction_error.go` | pure operators |
| `Precompile` | `programs/ed25519/instructions.go`, `programs/secp256k1/instructions.go` | pure operators |
| `Library` | a program that calls all of these | composition of `PlanCache`, `Codec`, `Accounts`, `WideInts`, `Pda`, `TxError` and `Precompile` |
| `MCLibrary` | | Go types, values, account states, integers, seeds, errors and messages of the run |

### WsClient

The fields of `Client` under `mu` are variables (`nextReqID`, `closedFlag`,
`pendingReqs`, `subscriptions`, and `mapsNil` once `Close` has set the maps to
nil). A subscribe request, its `pendingReply` and its `Subscription` are created
together and share the request id; `reply[r]` is the channel `pending.done` with
its error, `subDone[r]` the channel behind `Done`. Each goroutine has a program
counter: `pc[g]` for callers, `rpc` for the read loop, `once` for the body of
`Close`, which runs on the goroutine that started it while all others wait inside
`once.Do`. `handleReply` is three steps (take the pending request; register under a
second lock; close `pending.done`), `dispatchIncoming` up to four (look up,
callback, delete, shutdown). Closing a closed channel or writing a nil map sets
`panicked`. External: the server answers a request it received at most once and
notifies an id only after the reply that assigned it; it may assign an id twice.

### SubscriptionChannel and LossyFifo

`ch` is the Go channel, notifications are numbered by arrival. The three selects
of `sendOrDropOldest` are three steps; `Recv` runs between any two. `LossyFifo`
says what the consumer is promised: a queue into which what decodes is put in order,
and from which the oldest element may be lost, only on an offer that found the queue
full. The consumer may have drained it since: the element that is dropped is the oldest
still buffered, and if none is left nothing is dropped. A notification that does not
decode is lost too.

### SendConfirm

Transaction `k` is the one built in attempt `k`. Every RPC call is a step, so the
cluster (block height, confirmation status of each transaction) moves between any
two. `sendTransaction` goes through the HTTP retries of `sendRaw`, so a broadcast
may happen although the caller sees an error. `Polling` is the inside of
`confirmSignature`, whose calls carry the deadline; the calls before it run on the
caller's context alone. Assumed of the cluster: a
transaction is included only up to its last valid height, the status answer is
exact, the height answer may lag, and a node does not answer "blockhash not found"
for a transaction it has itself broadcast and that is still valid.

### JsonRpc

Goroutines draw ids from one counter, one per element. The body of an answer is
applied response by response: a response carries an id of the request or an unknown
one and is good, an error object, undecodable or empty; ids may repeat and be
missing. A result is represented by the id of the request it answers, so a mismatch
is visible. The context may be cancelled at any time before the answer is in.

### MessageBuilder

`staticEntries` is the sequence of entries in order of `firstSeen`; `Entries`
applies `AddOrUpdate` to one reference after the other. `MaxAccounts` stands for 256: the limit of the
builders and the width of the index (`Uint8(n) == n % MaxAccounts`). The actions
only choose the input: instructions and accounts are added one by one, then both
builders run on the same input.

### Wire and TxFlow

`Wire` has every byte of the three message formats, of transactions and of
entries, but the bytes are small: `Cont` stands for 0x80, the top bit of a byte,
and keys, hashes, signatures and wide integers have constant lengths. With
`Cont = 4` a byte has three bits, a shortvec group two, and a uint16 six, so that
the three-group limit (`b2 > 0x03`) and 0xFFFF coincide as they do in the code. A
decoder is a record of the remaining bytes, the first error and the value read
last; the struct being decoded is filled field by field, in the order of the code.
What the Go types allow a message to hold is the set `Message` of `TxFlow` with
`ConfigFits`; `MessagesAssumption` says that the messages of an instance are such.

`TxFlow` has a transaction that starts with any number of its slots. `Sign` is one
step for the checks and the growth of `tx.Signatures` and one for each signer asked,
which may fail and so ends the call. The blockhash may be replaced between calls,
and the transaction may be marshalled and decoded by the next party at any time.
The history variables `fresh` and `sent` record which slots were filled since the
message last changed. Separately, when there is no transaction, a reader gets a
message byte by byte as long as the decoder wants more. `VerifySignatures` compares
with `EdSign`, an external function of key and bytes.

### PlanCache, Codec, Accounts, WideInts, Pda, TxError, Precompile and Library

`PlanCache` has one step for each access to the shared `sync.Map`: `Load`, the
compilation of a type that is not there, `LoadOrStore`. A plan is identified by its
type and the goroutine that compiled it, so that two plans for one type can be told
apart. How a compilation ends (a plan, an error, a stack overflow, which ends the
process) is the constant `Compile`, which `Library` instantiates with the compiler
of `Codec`.

`Codec` compiles a Go type into a list of opcodes with offsets, as `emitValue` does,
and runs them over the bytes and the memory of the value. Memory is a sequence of
cells, one per scalar, so that a wrong offset or stride writes the wrong cell; a
slice, a string or a pointer is one cell that holds the memory it points to. The
wire format is stated a second time, independently, by encoding a value field by
field (`Encode`) and reading it off the memory (`View`).

`Accounts` follows the decoders over `Reader`, whose first error sticks and is looked
at once, at the end. Extensions are decoded in any order, as Go iterates a map.
`WideInts` keeps the two or four words of an integer apart. In `Pda` the hash is
external: an address is the bytes that are hashed, and which of them lie on the
curve is an input.

`TxError` decodes the `err` field of a transaction. A JSON document is a tree whose
objects are lists of members and whose numbers have a value and a form (digits, an
integer written otherwise, a fraction), because `ParseUint` and a `float64` disagree on
the second; `Unmarshal`, external, makes Go values of it, with `json.Number` or with
`float64`. How the runtime writes its errors is stated once more (`ErrorDoc`,
`ExpectedError`), and what the code makes of them is compared with that.

`Precompile` lays out the instruction data of the signature precompiles byte by byte;
`Descriptors`, external, reads the offsets back as the precompile does. That 0xFFFF
(ed25519) and 0xff (secp256k1) mean "this instruction" is taken from the comments of
the source.

In `Library` any number of goroutines decode through the cache. Running a plan reads
the plan and writes memory that belongs to the caller, so its result is looked at
only where nothing else goes on (`Alone`); the calls that share nothing at all are
made by a program that makes only them (`Quiet`). `ret` is the call that returned
last, with its input and its output.

## 3. Runs

| Run | Expect | Shows |
|---|---|---|
| `ws_safety` | pass | No panic, no lost handle or waiter, the user's `shutdown` once, one-shot delivery once, at most one late callback |
| `ws_liveness` | pass | `Close` completes, releases every blocked `Subscribe`, ends every handle whose id is its own |
| `ws_shared_id` | violation | With one id for two subscriptions the first handle's `Done` never closes |
| `ws_channel` | pass | The newest notification is kept, and the channel refines `LossyFifo`: order is kept, and what is lost did not decode, or was the oldest still buffered on an offer that had found the buffer full |
| `send_confirm` | pass | At most one transaction that can still be included; success is real; whatever the outcome, the caller holds the signature of what can still be included, unless `sendTransaction` itself failed; polling ends although no call is answered, and a cancelled call returns |
| `send_resend` | violation | The status is "not found", the transaction lands, the next block passes its last valid height: a recorded transaction is given up as expired, then rebuilt and sent again |
| `jsonrpc_calls` | pass | Unique ids; after a batch each element holds its own result or an error (`ElementsTold`); cancelled calls return |
| `batch_reuse` | violation | `Error` survives a success when the slice is reused |
| `message_builder` | pass | Indices resolve, roles are exact, order is by role and first appearance, no account twice |
| `program_id_static` | violation | A program id can get an index into a lookup table |
| `tx_wire` | pass | What is marshalled is decoded back, alone and within an entry, and no proper prefix of it is accepted; the size is exact; an accepted message has one encoding; signatures stay in their slots and verify |
| `library_calls` | pass | All goroutines run the cached plan of their type, whatever races; only a type that contains itself crashes the compiler; decoding inverts the wire format; account states, wide integers and derived addresses are exact at every boundary; transaction errors are told from success and from each other; precompiles find what their offsets should point at |

Bounds, and why they are enough to meet the interesting cases:

- `WsClient`: two callers and the read loop are the three parties that contend for
  one entry (`Unsubscribe`, `Close`, one-shot drop); three requests allow a second
  subscription under an id that was released and one under an id in use, two ids
  allow both at once. Callers and ids are interchangeable (symmetry; not used in the
  liveness runs). Callback counters saturate at 2.
- `SubscriptionChannel`: capacity 3 for 64, eight notifications, so that the buffer
  fills, overflows twice over and is drained in the middle of a send.
- `SendConfirm`: two retries, two HTTP attempts, validity of one block and heights
  up to 3, so that every attempt can expire, including the last.
- `JsonRpc`: a batch of two and a single call side by side, two calls each, two HTTP
  attempts, two responses per array (three in the reuse run).
- `MessageBuilder`: five keys against `MaxAccounts = 4`, so that the limit is
  crossed; two instructions, three accounts, tables that share an address, hold the
  program, hold the payer and hold an address twice.
- `TxFlow`: eleven messages: each format with and without its optional parts, counts
  at one, two and three shortvec groups (20 keys), above a byte (8 keys in v1) and
  above a uint16 (64 keys), no signature, more signatures than keys, invalid
  lookups, and as many signatures as make the count look like the v1 prefix. Two
  signers per call out of three, one of them foreign to most messages, two
  blockhashes. Inputs of up to 11 bytes (14 for v1) over the bytes 0, 1, 4 and 5, with
  more values for the version and the config mask: enough for a key, an instruction,
  a lookup or a config field in each format that has them.
- `Library`: three interchangeable goroutines, so that two can compile while a third
  loads; one or two types at a time out of those of `MCLibrary`: every integer width,
  a struct with skipped and unexported fields, nested arrays, slices, pointers and
  strings, types that unmarshal themselves, types that contain themselves through a
  pointer, a slice or two others, and a kind that is refused. `MaxDepth` is deeper
  than any type without a cycle. A byte has three bits, a key two bytes, a word two
  bytes; the bincode and Borsh prefixes have different widths, so mistaking one for
  the other shows. Garbage inputs include declared lengths above what remains, bool
  and option bytes other than 0 and 1. Account states are cut at every interesting
  length; TLV lists have repeated, empty, short and overlong entries. Four bumps and
  every subset of them on the curve; seed lists at and over both limits (`BumpHighest`
  speaks of those within). Errors: indices and codes at and beyond a uint8, a uint32
  and a uint64, negative, fractional, written as `7.0`, as any Go number type; objects
  with no, one, two and repeated members; lists of the wrong length. Messages and
  descriptor lists of none, one, as many as a uint16 or a uint8 counts, and one more.

### Fairness

- `WsClient`: a runnable goroutine is scheduled, critical sections are short, user
  callbacks do not block, a select with a ready case proceeds, operations on a
  closed connection fail. Nothing is assumed of the server, of writes on an open
  connection, of contexts or of anyone calling `Close`.
- `SendConfirm`: the goroutine runs between its calls (`Local`), a call whose context
  has ended returns (`Aborted`: the polling calls carry the deadline in `callCtx`, all
  others the caller's `ctx`; the builder, which gets `ctx`, is assumed to return once
  it ended), and time passes (`DeadlinePasses`). No call need ever be answered, and
  nobody need cancel: a silent node can hold `GetLatestBlockhash`, the builder and
  `sendTransaction` for ever, because `http.Client` has no `Timeout`
  (`jsonrpc/client.go:266`), and `AlwaysReturns` does not claim otherwise.
- `JsonRpc`: goroutines run, timers fire, a cancelled context ends an exchange
  (`NewRequestWithContext`). The server owes nothing.
- `SubscriptionChannel`: the read loop, which runs `sendOrDropOldest`, is scheduled;
  its selects have a default and do not block. The consumer owes nothing.
- `MessageBuilder`, `TxFlow`, `Library`: none.

## 4. Proofs

`WsClientProofs` proves `TypeOK`, `NoPanic`, `ShutdownOnce`, `HandleAccounted`,
`WaiterAccounted`, `RegisteredBeforeReturn`, `OneShotDeliveredOnce`,
`LateDispatchBounded` and `OneShotDropsOwnEntry` as invariants of `Spec` for every
set of callers, every set of ids and every number of requests. Assumed:
`MaxReqAssumption`, `NoIdAssumption`. None is inductive alone: that a channel is
not closed twice depends on who can still hold the pending reply. `IInv` therefore
says where everything is: which phase `Close` is in and what its snapshots hold
(`ClosePhase`), what the read loop and each caller have in hand (`LoopHand`,
`CallerHand`), that a pending reply has exactly one owner among the map, the
snapshot and the read loop (`PendingOwner`, `WaiterOwner`), that an entry has one
among the map, the snapshot, a caller and the read loop (`EntryOwner`), that a
request not yet drawn has left no trace (`Unborn`), that ids are stored once and
match the map (`IdOnce`, `EntryId`), and how the history variables follow the life
of a subscription (`LifeCycle`, `History`). One lemma per part, one step per action.

`SendConfirmProofs` proves `TypeOK`, `AtMostOneInFlight`, `SuccessIsReal` and
`SignatureKept` for every number of retries, validity, height
bound and required commitment (`RetriesAssumption`, `AttemptsAssumption`,
`HeightAssumption`, `RequiredAssumption`). The core of `IInv` is `GivenUp`: every
transaction of an earlier attempt is on chain, was never sent, or is past its last
valid height, which is what the comparison `height > lastValidBlockHeight` buys,
although the height it looks at may be old. `Unsent` says that nothing of the present
attempt has been broadcast before `sendTransaction`, and `Returned` what each kind of
result says of the signature returned with it. `SignatureKept` then follows
(`AliveIsLast`): what can still be included is of the last attempt, so an attempt that
fails while it fetches or builds has nothing left to look up.

`PlanCacheProofs` proves `CacheTypeOK`, `PlanShared` and `OnlyCompiledCached` for any
number of goroutines and types and any way compilations may end
(`PlanCacheAssumption`), and that an entry of the cache is never replaced.
`PlanShared` alone is not inductive: `LoadOrStore` publishes what the goroutine
holds, so `CacheInv` adds `Compiled`, that a goroutine about to store holds a plan of
its target, and that its target compiles.

`JsonRpcProofs` proves `UniqueIDs` and `ElementsTold` (its parts are `ResultsMatched`
and `FailuresReported`) for any number of goroutines, calls, elements, attempts and responses
(`GoroutinesAssumption`, `BoundsAssumption`). `UniqueIDs` needs to know that every id
in use was drawn from the counter (`Drawn`, `AllDrawn`). The two properties of batches
are about the end of a batch; `Reflected` carries them through its middle: while the
responses are applied one by one, an element that got only good answers holds its own
result and one that got a bad answer an error, whatever came before; `NothingApplied`
says that a batch whose answer is not in has touched no element, and `Marked` that what
is not answered is marked before `nil` is returned.

`SubscriptionChannelProofs` proves `NewestKept`, that everything received and buffered
is in order of arrival and accounted for (`StreamInOrder`), and that each step of the
three selects and of `Recv` is a step of `LossyFifo` or a stutter (`RefinesLossyFifo`),
for every capacity and any number of notifications. The invariant says where the
notification on its way is and, in the last select, that a slot is free: the producer
is the only one that fills the channel.

`MessageBuilderProofs` proves `IndicesResolve`, `RolesGranted`, `OrderedByRole` and
`LoadedOnce` for every list of instructions and every list of tables. The state
invariant `Built` is plain; the work is in what the builders compute:

- `EntriesCollected`: `addOrUpdate` over a list of references leaves one entry per key,
  with the union of its roles, in order of first appearance.
- `OrderedSorted`, `HeaderFromReferences`: the four buckets are a permutation of the
  entries, sorted; the three counts of the header, after their conversion to uint8,
  give back the roles of every place.
- `TableSlotsElements`, `LookedElements`: the slots in use of all tables are those of
  the routed accounts, each once, the writable ones apart.
- `LookedUpAgrees`: resolving the lookups of a message gives the keys the builder had
  put behind its indices, although tables without a slot in use were left out.
- `RolesUsed`: an index in an instruction is the last place of its key, so a key that is
  both static and looked up (only a program id can be) is granted what the lookup says.

Assumed: `WidthAssumption`, that there are fewer signers than a uint8 can count (a
transaction with 256 signatures is many times the size of a packet; with it the header
would wrap to 0), and `TableAssumption`, that a table has at most 256 addresses, which
is the protocol's limit, and that two tables with one address have one content:
`ResolvedAccountKeys` takes a map from table address to contents.

`TxFlowProofs` proves all six properties of `tx_wire`, for every `Cont`, every size of
keys, hashes, signatures and integers (`SizesAssumption`), every set of messages and any
number of signers and steps (`MessagesAssumption`):

- Forward: `Stands(p, b, n, k, v)` says that decoder `p` has read `k` of the bytes `b`,
  which are cut off after `n`, and holds `v`, or that it has found the input too short.
  The `...Stands` lemmas show for every reader of `Wire`, from one byte up to an entry,
  that before the encoding of a value it goes on to stand behind it with that value.
  With `n` the whole length this is `RoundTrip` and `StreamDecodes`, with a smaller `n` it
  says that no proper prefix decodes: one lemma per reader serves both.
- Sizes: `MessageSize` and `TransactionSize` add up the lengths of the parts.
- Backward: `Read(p, q, e)` says that the way from `p` to `q` consumed the bytes `e`. The
  `...Read` lemmas show that a reader that reports no error has consumed the encoding of
  the value it returns, and that this value is in its type. Here it counts that
  `DecodeShortvec` refuses padded groups, that the config mask has no half-set priority
  fee and no unknown bit, and that the decoder fails when input is left. This gives
  `Canonical` (`OneEncoding`), where nothing is assumed of the input but that it is bytes
  (`AlphabetFits`), and for transactions `OneTransactionEncoding`.

Two invariants of the state machine rest on this. `WInv`: the transaction at hand is
well-formed, the running `Sign` pairs signers with slots of their own keys, and the wire
holds bytes. It is inductive because of `UnmarshalTxRead`: whatever `Receive` accepts is
well-formed, also if it is not what was marshalled. `RoundTrip`, `SizeExact`,
`StreamDecodes` and `SignaturesKept` follow, for all messages. `SignedVerifies` is not
inductive, since `Receive` brings back what was sent long before; `IInv` adds that what is
on the wire is the encoding of some transaction whose slots in `sent` are signed, and that
a slot in `fresh` only exists where there is a key for it. It needs that `Receive` returns
that very transaction, hence `MessagesUnambiguous`, fewer than 0x80 required signatures:
beyond that the decoder takes a transaction for one of another version. `message.go:78`
says that every valid transaction stays below. `SignaturesFit`, that a signature has its
64 bytes, is all that is assumed of the signers; `StreamOfTransactions` assumes that the
limits of `DecodeEntries` admit one entry of three transactions.

These are statements about sequences of any length, and the library's induction
theorems cannot be instantiated by the provers. `SequenceLemmas` therefore states
induction with sets in place of predicates: `Least` from the well-foundedness of the
naturals, from it `Induct` (a set that holds 0 and with n also n + 1 holds every n) and
`SeqInduct` (the same for the empty sequence and `Append`), and `RecursionExists`, that
a recursive function over 0 .. n exists, from which a function defined by recursion
satisfies its own equation. Every proof by induction defines the set of the things for
which the claim holds and shows that it is everything.

Only model-checked: liveness (`ws_liveness`, `AlwaysReturns`, `CancelReturns`, and that
the channel's producer finishes, the fairness part of `ImplementsLossyFifo`), because
the provers know neither `ENABLED` nor fairness; and what `Codec`, `Accounts`, `WideInts`,
`Pda`, `TxError` and `Precompile` compute, as used in `Library` (`CrashOnlyOnCycle`,
`DecodeInverts`, `AccountsDecoded`, `WideExact`, `BumpHighest`, `ErrorDecoded`,
`PrecompileReads`): `Codec`, `Accounts` and `TxError` are defined by `RECURSIVE` operators
over types, bytes and documents, which the prover cannot use, and `Library` extends them.

## 5. What the code does that a reader may not expect

Findings, each with a violation run: see `PROJECT.json`.

Seen while modelling, against a comment in the source, without a run of their own:

- `Err` is not nil after a graceful `Close`, although `ws/client.go:125` says "nil if the
  client is still running or was closed gracefully": `Close` makes the read fail and the
  read loop stores that failure.
- A second `Unsubscribe` sends a second unsubscribe request, although
  `ws/client.go:412` says "subsequent calls are no-ops". For a one-shot subscription
  the user's shutdown may run twice (cleanup and `Unsubscribe`), where `ws/client.go:303`
  says "once".
- `Transaction.Sign` grows `tx.Signatures` before it refuses a foreign signer, although
  `transaction.go:74` says that it "does not mutate any state" then, and the comment
  between the two (`transaction.go:112`) that it aborts "without having touched
  tx.Signatures". The new slots are zero; `SignaturesKept` is about the slots there
  were before and does not see it.
- `FindProgramAddress` returns "an error only" if every bump is on the curve
  (`pda.go:76`), but also refuses too many seeds, and tries a seed that is too long with
  every bump to report that none is off the curve. `BumpHighest` leaves such seeds out.
- A transaction that expires in the last attempt ends with "solana client: blockhash
  expired" (`rpc/send.go:74`). `jsonrpc.IsTransactionExpired`, which is for what "happens
  during the confirm loop" (`jsonrpc/classify.go:154`), does not recognise that text, nor
  does `IsBlockhashExpired`.
- `P50` of `rpc/priorityfee.go` is called the median; the index is rounded down, so of
  three fees it is the lowest.

No comment says otherwise of these:

- A `Subscribe` whose context fires after its reply was taken by the read loop
  leaves an entry in the map, without a handle, until `Close`.
- `WriteMessage` looks at no context and holds `writeMu`.
- `WithConfirmTimeout` bounds the polling only: `GetLatestBlockhash`, the builder and
  `sendTransaction` run on the caller's context, and the `http.Client` has no timeout,
  so a node that does not answer holds the call until that context ends. The timeout
  counts per attempt, and the last sleep can overshoot it.
- When `sendTransaction` fails, the caller gets the zero signature although the
  transaction may have been broadcast. The signed variant has no expiry check.
- "exhausted blockhash retries" is unreachable unless the number of retries is
  negative.
- 256 signers would wrap the header's `NumRequiredSignatures` to 0; such a
  transaction cannot fit a packet.
- Legacy and v0 messages drop a `TransactionConfig` that was set on them, and a v1
  message with a nil config decodes to one with an empty config.
- `DecodeTransaction` does not compare the number of signatures with the header;
  `Marshal` does.
- A v1 message may also follow a vector of signatures: `DecodeTransaction` accepts it,
  but `Marshal` writes the signatures of a v1 transaction last. With a number of
  signatures other than the header's, this is the only way in which accepted bytes are
  not those that `Marshal` writes (`OneTransactionEncoding`).
- A legacy or v0 transaction with 129 signatures starts with the byte of the v1
  prefix and is decoded as one; `Marshal` does not refuse it.
- A Go type that contains itself through a pointer or a slice overflows the stack of
  the compiler: the cache is not consulted for the types inside a type
  (`CrashOnlyOnCycle`). Two goroutines may both compile a type, and one plan is
  thrown away.
- A decode that fails leaves what it has written in the target. A plan accepts only 0
  and 1 for a bool, `Reader.Bool` any byte. `int` and `uint` are eight bytes on the wire
  and are written as such, which a 32-bit platform does not have; the model has 64 bits.
- An array or slice whose elements have kind uint8 is copied as bytes, also if the
  element type implements `Unmarshaler`. A slice of elements without a size is
  refused when it is longer than the bytes that remain. The types of the run have
  neither.
- `Uint128FromBigInt` cuts what is too long and drops the sign, where
  `U128.SetBigInt` refuses.
- An instruction index written as `7.0` or `7e0` is refused in JSON text and accepted
  in the value that the same text unmarshals to. An instruction error that is the plain
  string "Custom" is a custom error with code 0.

## 6. Not modelled

The priority fee estimate is one index into a sorted list. RPC method wrappers and the
program instruction builders other than the precompiles' are stateless constructors;
keys, mnemonics, base58 and JSON types are conversions around third-party
cryptography. Backoff durations, HTTP headers, log texts and payloads are
abstracted away. `SetHeader` is documented as unsafe while requests are in flight.

## 7. Plan

1. (done) `WsClient`, `SubscriptionChannel`, `SendConfirm`, `JsonRpc`,
   `MessageBuilder`, `Wire`, `TxFlow`; proofs for `WsClient` and `SendConfirm`.
2. (done) The reflective decoder and its plan cache, `Reader`, account state with its
   extensions, wide integers, derived addresses; proofs for the plan cache. Later
   transaction errors and the precompile instructions.
3. The order of the tests in `jsonrpc/classify.go`, which `SendConfirm` takes as given.
4. (done) Proofs for `JsonRpc`, `SubscriptionChannel` and `MessageBuilder`.
5. (done) Proofs for `Wire` and `TxFlow`: that decoding inverts marshalling and marshalling
   decoding, on which all properties of `tx_wire` rest.
6. `Codec` with recursive functions over the depth of a type in place of `RECURSIVE`
   operators, so that `DecodeInverts` can be proved.
