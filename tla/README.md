# A TLA+ model of the Secure Notes application

Secure Notes is an application for Ledger devices with a touch screen. It keeps up to ten notes
(a title and a content made of paragraphs) and sixteen contacts in the non-volatile memory of the
device, lets the user edit them behind an optional passcode, and exchanges notes with a host through
commands. It grew from the boilerplate application, whose public key and signature commands are
still there. Paths below are relative to the repository (`src/` is its C code).

The project holds TLA+ modules translated from that code, configurations for TLC, and proofs
checked by TLAPS. `PROJECT.json` lists the runs, what each mutation of a definition breaks, the
lines each definition stands for, the hazards, the findings and the theorems.

    tlc -config NotesApp.cfg MCNotesApp      # one run; the table of runs is below
    tlapm NotesApp_proofs.tla                # one proof module

## 1. Inventory

The application has no threads and no interrupts of its own: `app_main` (`src/app_main.c`) waits in
`io_recv_command`, which serves touches and timers by calling the callbacks registered by the screen
on display, until a command comes; the command is then dispatched, and its handler also draws
screens. A handler or a callback is never interrupted, but **any command may come on any screen**,
and the callbacks of a screen that a command replaced are lost. Concurrency is therefore
interleaving of whole handlers, with one exception: the power may be lost anywhere inside one.

| Component | State | Operations |
|---|---|---|
| Storage of the notes: `app_notes_utils.c`, `nvram_struct.c`, `nvram_data.h` | NVRAM: header, bit mask `usedNotes`, array `notes` | `app_notesInit`, `AddNote`, `ModifyNote`, `DeleteNote`, `GetAll` |
| Storage of the contacts: same files | NVRAM: `usedContacts`, `contacts` | `AddContact`, `GetAllContacts` (modify and delete have no caller) |
| Paragraphs of a note: `app_notes_display.c` | `currentNote.content`, split in place; `context.paragraphs` | split, join, append, replace, remove |
| Screens and working copy: `menu_nbgl.c`, `app_notes_list.c`, `app_notes_new.c`, `app_notes_display.c`, `app_notes_action.c` | `currentNote`, the static context of each screen, the page on display | menu, list, new note, display, edit, delete |
| Sharing: `app_notes_share.c`, `app_notes_new_contact.c` | `context.note`, the listed contacts, `currentContact`, `newContact`, `onBackCallback` | share page, new contact, acceptance of a note received |
| Host commands on notes: `handler/add_address.c`, `get_shared_note.c`, `put_shared_note.c` | `sharedBuffer` | ADD_ADDRESS, GET_SHARED_NOTE, PUT_SHARED_NOTE |
| Passcode and lock: `app_notes_settings.c`, `app_notes_enter_passcode.c`, `app_notes_validate_passcode.c` | NVRAM: `locked`, passcode; RAM: `isUnlocked`, digits typed, the callback of a right code | set, check, remove |
| Text editor: `app_notes_text.c` | the text typed, in `tmpString` or in place | key, confirm, back |
| Pagination: list, display and share | page number, index of the first line of each page | next, previous, go to |
| Commands: `app_main.c`, `apdu/dispatcher.c`, `helper/send_reponse.c` | none | checks of CLA, INS, P1, P2, Lc |
| Public key and signature: `handler/get_public_key.c`, `sign_tx.c`, `ui/nbgl_display_*.c`, `ui/action/validate.c` | `G_context` | review, choice, answer; chunks of a transaction |
| Transaction parser: `transaction/*.c` | none | deserialize, format |
| Small commands, addresses, the two-button build (`ui/*bagl*`, without notes) | none | answers, static screens |

How they interact:

- Every screen, and GET_SHARED_NOTE, works on **one** `currentNote`. A note is copied to it when it
  is selected; a new note is typed in it; its index decides which slot an edit, a save or a deletion
  touches.
- While a note is displayed, the content in `currentNote` is **split in place** (`'\n'` becomes
  `'\0'`). Every way out to a save must join it again, and a command may read it meanwhile.
- The list and the share page keep indexes and pointers read when they were drawn; the storage may
  change under them (a deletion, a note received, a contact added).
- The passcode page is a **modal layer**: it stays over the base screen and takes the touches, while
  commands replace the base screen under it. What a right code does is a callback kept by it.
- GET_PUBLIC_KEY and SIGN_TX are answered only by the choice of the user on the review they draw.

What is hard: the order of commands against screens; static data kept by a screen while another
actor changes what it describes; the index that survives a failed creation; edits in place of
overlapping strings; several NVRAM writes for one operation; bounds of arrays tested one screen
before they are used.

What makes each component correct:

- *storage*: at any instant, power cuts included, the mask, the header and the slots are consistent,
  at most the slot being written is half written, adding fails only when the array is full;
- *paragraphs*: each edit in the buffer is the intended edit of a sequence, and what is on screen is
  what is saved;
- *screens*: what is edited, saved or deleted is the note on display; a list never opens a free slot;
  a new note has a slot; notes change only when the user confirms it;
- *lock*: the passcode cannot be replaced nor the lock removed without entering it;
- *editor*: the count of the characters is the length of the string, and the text stays in its buffer;
- *pages*: every line is on one page, the page shown exists, and what is selected is on it;
- *sharing*: the receiver named is the one touched; contacts are added when one is asked for;
- *commands*: each is answered once; the note given to the host is the note the user shares, and what
  one device packs another reads back;
- *signatures*: what is signed is what was sent and shown; what is parsed is what was serialized.

## 2. Modules

| Module | Models | Proofs in |
|---|---|---|
| `Notebook` | the promise of a storage: places, calls, what a cut call may leave | |
| `SlotStore` | the NVRAM writes of the notes one by one; a power cut between any two | `Nvram_proofs` |
| `Nvram` | notes and contacts behind their one header: `SlotStore`, and an instance of it for the contacts with the search bound of the source | `Nvram_proofs` |
| `Document` | the promise of the paragraph edits, on a sequence | |
| `ParagraphOps` | the in-place string operations, byte by byte | |
| `Paragraphs` | a note on display: its buffer, its pointers and the saved string, through any edits | `Paragraphs_proofs` |
| `NotesApp` | screens, working copy, lock and commands over an abstract storage | `NotesApp_proofs` |
| `Lock` | the promise of the lock: set, entered, removed, torn | |
| `Passcode` | the keypads digit by digit, the two entries, the check, the writes of the settings | `Typing_proofs` |
| `TextEdit` | the keyboard and the text it edits in place, key by key | `Typing_proofs` |
| `SharedBuffer` | the bytes of GET_NOTE, PUT_NOTE and ADD_ADDRESS in their one buffer | `Commands_proofs` |
| `Receivers` | the contacts listed, the contact copied, the name typed, the commands that read it | |
| `ParagraphPages`, `BarPages` | how a note, and a list of bars, is cut into pages (operators) | |
| `DisplayPages`, `ListPages` | the page on display through edits, deletions and other notes | |
| `PageCount` | the loops that count the pages of a note, iteration by iteration | |
| `NotePages` | `DisplayPages` with the loops of `PageCount` that each display runs | `NotePages_proofs` |
| `Lists` | `Receivers` and `ListPages` on the one screen, with the ways from one to the other | `Lists_proofs` |
| `SignFlow` | SIGN_TX in chunks and GET_PUBLIC_KEY: context, reviews, answers | `Commands_proofs` |
| `TxParser` | the parser of a transaction, field by field, and the serializer | `TxParser_proofs` |
| `MC*` | small instances | |

How they compose. `Nvram` joins the two storages: `app_notesInit` and a power cut act on both, and a
function on one is never inside a function on the other. `Lists` joins the list of notes and that of
contacts: opening a note to share it, the page "Note sent" that comes back to the first list, a note
received, a restart, and commands that leave either list at any page. `NotePages` joins the page of a
note and the loops that count its pages, which nothing interrupts. `NotesApp` relies on the storages
as `Notebook` promises them, takes the removal of a paragraph from `ParagraphOps`, and the lock as
`Lock` promises it; `Paragraphs` says what an edit does to the text, `DisplayPages` what it does to
the page; `SignFlow` takes the transactions that parse as a constant, and `TxParser` says which those
are.

### SlotStore and Notebook

The variables `header`, `used`, `title`, `content` are the NVRAM, each `nvm_write` is a step, and
`call` is the position inside the function in progress. `AddNote` writes the mask, `WriteNewTitle`
and `WriteContent` the two strings, as in `app_notes_utils.c:117-136`; `ModifyNote` writes the title
and leaves the content to `WriteContent`. `PowerCut` keeps the NVRAM and drops the rest; the next
start runs `app_notesInit`, in two writes. `Notebook` says what a caller may rely on: a call that
returns had exactly its effect; a call cut by a loss of power touched only its own place, which then
holds, field by field, old or new values (a modification) or is taken with any values (an addition,
because the mask is written first). The refinement mapping hides a slot being added and shows the old
entry of a slot being modified, which is why `call` carries the old entry as a history field.
`ModifyNote` and `DeleteNote` are only called for a used slot: `EditedNoteIsSaved` in `NotesApp` is
the proof of that obligation. `Nvram` instantiates `SlotStore` a second time over the variables of the
contacts, with more slots than its search covers; `WriteHeader`, `WipeData`, `SkipInit` and `PowerCut`
are steps of both instances at once, since one header and one write serve both arrays.

### ParagraphOps, Paragraphs and Document

`ParagraphOps` translates `content2paragraphs`, `paragraphs2content`, `onNewParagraphConfirmed` and
`onParagraphModified` on a buffer of `Size` bytes and a sequence of offsets, with the bytes left
after the end of the string. `Paragraphs` runs them as the screens do (each edit joins, saves and
displays again), with the way back (`Redisplay`) and the selection of the note again (`Reopen`), and
refines `Document`. `Document` has the removal as it is, on the sequence: each later paragraph goes into
the room of the one before it and is cut there, and the note ends where the first shorter one was put
(findings 2 and 20 say what this is not). Confirming an empty text for the only paragraph is no step of
`Document`: the text stays. `ModifyTitle` saves the content without editing it.

### NotesApp

`page` is the base screen with the static data its module keeps (the listed slots, the index of the
paragraph under edition, the way back, the note received); `modal` is the passcode layer and the
callback it keeps; `working` is `currentNote` and `split` says that its content is split in place;
`shared` and `contactPage` are the two pointers set by opening the share and the new contact pages.
One action is one callback or one command handler: `Touch(s)` guards the callbacks of screen `s` by
the absence of the modal layer, `Serve` guards a command by the absence of a command waiting for the
user. A content is the sequence of its paragraphs; `CString` is what a reader of the C string finds
in a split copy, its first paragraph. `RemoveParagraph` is a parameter, given in TLC's runs the
in-place removal of `ParagraphOps`, and assumed in the proofs only to return a content: the theorems
hold whatever removal does to the text. `ModifyNote` writes nothing to a free slot (the strings of a
slot that the mask does not show), as in the source, which does not touch the mask.

Screens that only differ by what they draw are left out: the informations page. The pages of a long
list and the keys of the keyboards have modules of their own. `reply` is the answer to the command served by the last step.

Assumptions on what is not under `src/` (the SDK and the host): one `nvm_write` of one field is not
cut in two; the modal layer stays over screens drawn later and takes touches until it is released;
the host waits for the answer to a command before the next; dereferencing a NULL pointer or callback ends the application,
which then starts again (`ADD_ADDRESS` before the new contact page).

### Passcode and Lock

`pin` is what is typed on the page, `keypad` the keys that are active: the handlers never test the
length of a code, they rely on the keys, which are drawn again only at some lengths and with other
bounds in the second step. `setPin` and `digits` are whole arrays next to their lengths, since a
shorter code leaves the end of a longer one behind it. `writing` is the next of the three writes;
`PowerCut` comes between any two. The mapping to `Lock` shows the lock as set by the last write, so
that power lost after the first is the step `Torn`, the only one that shuts the notes with a code
nobody typed.

### TextEdit

`mem` is the buffer that is edited in place and `enteredTextLen` the count the keys keep apart from
the string. The space key and the Confirm button act only when they were last drawn active. A byte
written or read past either end of the buffer is recorded in `outside`: the memory there is not
modelled. The editor has one limit, that of a content, and is given buffers of a content, of a title and
of a name; `Limit` and `Capacity` are apart, and a text that fills the buffer has no terminator in it,
so that what is trimmed then is a choice (`Trimmings`).

### SharedBuffer

Bytes are numbers modulo `ByteMod` and a length kept in a `uint8_t` is taken modulo it. `choice` keeps
the two addresses that "Add shared Note?" reads when it is confirmed, `offered` the note they were
offered as. A packet is the answer of another device, whole or cut short at any byte. What GET_NOTE
writes past the buffer for a long note is left out; its length modulo 256 is what is sent. Of
a packet that is cut, `buffer_read_nu8` (the SDK's) reads a string whole or not at all. `outcome` is
what the last step gave: the answer, the note kept or the address kept.

### Receivers and Lists

Contacts are never deleted, so they are a sequence in the order of their slots. `currentName` is the
name in `currentContact`, which a touched bar fills, the editor types in, and ADD_ADDRESS reads.
`AddAddress` and `GetSharedNote` come on any screen, as soon as their pointers were set once. In
`Lists` one of the two modules has the screen at a time: `screen = "elsewhere"` in `Receivers` while
a page of the notes is up, `page = "menu"` in `ListPages` while one of the contacts is.

### Pages

A page holds as many lines as its height allows; with several pages the navigation bar takes some of
it. `BarPages` has the cutting of the two lists, whose functions are written twice in the source, and
`ParagraphPages` that of a note: two heights per paragraph (two fonts), a last page that also has the
bar "tap to add", and a paragraph too long for a page, which gets one alone. The searches for the page
of an index are translated as they are, with the `>=` that makes them stop one page early.
`PageCount` runs `getNbPagesForArray` and `getNbParagraphsInPage` one iteration per step, since its
termination depends on no page being counted with no paragraph. `NotePages` starts it for the note on
display at each display, and serves no touch until it has returned. Heights and areas are small numbers,
with the proportions that give each case.

### SignFlow and TxParser

`reqType`, `state`, `path`, `rawTx` and `hash` are `G_context`. A chunk is a sequence of units and
`Transactions` the sequences that parse. `Dispatch` errors (class, instruction, P1, P2, no data) leave
the context; the small commands answer without touching it; the commands on notes clear it. Two
variables are histories: `session` is what the host sent since the last start command and what became of
it, and no action reads it; `owed` counts the commands taken and not answered, an answer that nobody
asked for making it negative, and is read only for the host to wait before its next command (`pending`).
The pages of the notes are one screen, `other`, but for the page of the passcode: `covered` says that it
is up, a review may be drawn under it, and leaving it replaces that review while its command waits
(finding 5).

`TxParser` reads any buffer field by field with the SDK's readers, modelled from how the parser uses
them: a read past the end fails, and a number read so is zero. `memo_len` may be larger than a
`size_t` of the device: what a read then returns is a choice among the outcomes. Numbers are read as
`read_u64_be` does, one byte after the other (`Appended`), and written as quotients by the powers of
256 (`Power`).

## 3. What the runs check

| Run | Instance | Shows |
|---|---|---|
| `nvram` | 2 notes, 3 contacts searched up to 2, 2 titles, 3 contents, 2 names, 2 addresses; 221,078 states | `StoreInv` (header before data, mask before strings, one half-written slot at most), `AddFailsOnlyWhenFull`, refinement of `Notebook`, at every write and power cut; a contact once added is never replaced, though its search bound is wrong |
| `paragraph_edit` | buffer of 9 bytes, 3 paragraphs of 0, 1 or 2 bytes; 696 states | pointers delimit the strings, screen and saved string agree (`ViewIsStored`), every edit is one of `Document`, what a removal cuts included |
| `notes_app` | 2 notes, 2 contacts, 2 paragraphs, 2 passcodes (symmetric), a note from the host; 1,757,092 states | the working copy is the saved note on display, a new note has room, all screens agree with the storage under the modal layer, notes change only when the user confirms, the lock needs its passcode |
| `passcode` | 2 digits, codes of 3 or 4; 1,020,384 states | the active keys follow the digits typed (`DigitsInPlace`), a code stored was typed twice in full, and the passcode is the lock of `Lock`, power cuts between its writes included |
| `text_edit` | buffer of 4 bytes and limit of 5, 2 letters and the space; 4,166 states | the string in the buffer is the count, and only a text that fills the buffer reaches past it (`TextInPlace`); no space first, trimming |
| `shared_buffer` | bytes and buffer of 8, packets cut at any byte; a title and a content too long for a byte; 120,267 states | what one device packs the other reads back; strings end in the buffer; what is answered to the host is one packet, its lengths those of its strings modulo the byte |
| `note_pages` | 4 paragraphs of 3 sizes; 6,496 states | the page shown exists, each paragraph has one page, a page fits, the loops that count the pages end with the number shown |
| `lists` | 5 notes, 6 contacts, 5 searched, 3 bars on one page or 2 on each; 718,600 states | contacts listed are those stored and the receiver named is the one touched; index and page kept by a list exist after additions, deletions and commands; each note has one page; bars fit; what is selected is near the page shown |
| `sign_flow` | 2 paths, 2 transactions, 3 chunks; 11,168 states | a review is of the context and its command waits, what is signed is what was sent, no answer without a command, and a command that waits is answered by its review |
| `tx_parser` | words of 2 bytes, all tails up to 5 bytes, memos up to 11; 77,840 states | a client's transaction is parsed to its fields; what is accepted is a serialization |
| `paragraph_removal`, `shared_note` (violations) | the instance of `paragraph_edit`; 1 note of 2 paragraphs, 1 contact, no passcode | findings 1 and 2 |

Each property of a passing run is broken by a mutation of a mapped definition that a plausible bug
would make: mask not written, search one slot short, save before join, a cached list, an unbounded
Plus button, a keypad not drawn again at a bound, a page searched without its navigation bar, a hash
taken before the last chunk, and so on. The mutated forms stand next to the definitions, marked
"Mutant".

**Bounds.** Two slots are enough for "the other slot": every property of the storage quantifies over
one slot or over the slot of the call and another one; both the full array and a free slot below and
above a used one occur. The contacts take three slots and a bound of two, so that the loop stops before
the end of the array as 10 does before 16. Texts of zero, one and two bytes give the removal and the
modification of a paragraph both signs of the difference of lengths and zero; three paragraphs give one
before and one after the edited one; `Fits` keeps the text inside the buffer (finding 12 says where it
may not). In `NotesApp`, two notes give a list, a full list, and a copy whose index is that of another
note; two paragraphs give the limit and the paragraph before it; the two passcodes, a right one and
another, are only compared, hence the symmetry. Codes of three or four digits out of two give every
length at which the keypad is drawn again and those at which it is not, a code that is the start of
another, and one that differs only by its last digit. A byte of three bits and a buffer of eight give
lengths below, at and above the modulus; two transactions, one the start of the other, give a flow that
is complete too early. Four paragraphs give up to four pages, an empty one, a last page tried again
with less room, and a paragraph that fills a page; five notes and six contacts give one page, several,
a last page that is not full, and contacts past the end of the search. All counters of the program are
bounded by its own arrays. A limit one above the buffer of the
editor gives a text that ends in it, one that fills it and one that leaves it. The theorems then drop the
bounds altogether.

**Deadlock** is checked in all runs but those of `TxParser`, where the parser returns: elsewhere the
power cut, or a touch, is always possible. A device that is off can be started.

**Liveness.** Between two handlers the program waits for the user or the host, who may never act, so
no handler is fair: fairness on a touch would be invented. That a command can still be answered is
stated as a safety property instead (`OneAnswerEach`; `PendingIsOnScreen` and `CommandsAreAnswered`,
which do not hold: section 5).
Inside a handler the processor goes on by itself until the function returns, which is weak fairness
of its steps: `NotePages` has it for the iterations of the loops (and not for the call), and
`CountEnds` says that they end. The other loops advance by one to a bound.

## 4. What is proved

All theorems hold for every value of the constants allowed by the named assumptions (`StoreAssumption`,
`ContactAssumption`, `NotesAssumption`, `RemovalAssumption`, `SignAssumption`, `SharedBufferAssumption`,
`PasscodeAssumption`, `ReceiversAssumption`, `BarAssumption`, `PagesAssumption`, `DisplayPagesAssumption`,
`TextAssumption`, `ParagraphsAssumption`, `TxAssumption`), which TLC evaluates on the runs. The modules in the
table above whose proofs are elsewhere are the parts that `Lists_proofs` (`Receivers`, `ListPages`, `BarPages`),
`NotePages_proofs` (`DisplayPages`, `ParagraphPages`, `PageCount`) and `Paragraphs_proofs` (`ParagraphOps`)
are about.

`Nvram_proofs`, on the storage of `SlotStore`: `TypeCorrect`; `StoreConsistent` (`StoreInv`), from the
inductive invariant `TypeOK /\ StoreInv` - `InitErasesNothing` is needed for the wipe, `CallMatchesNvram`
for the second write of a call; `AddNeedsRoom` (`AddFailsOnlyWhenFull`, when the search bound is the size
of the array, as for the notes); `StoreImplementsNotebook`: initial states map to initial states and each
step maps to a step of `Notebook` or to a stutter. A power cut needs `CallMatchesNvram` to show that what
it leaves is one of the `Torn` entries.

On the whole NVRAM: `NotesAreStore`, `NvramSpec => Spec`: a step on the contacts is a stutter of the notes,
the others are steps of `SlotStore`, so that the theorems above hold of the notes. `ContactsKept`
(`ContactsAreKept`) rests on `ContactInv`, the types and `StoreInv` of the second instance. It needs
`TypeOK` of the notes, because the header that both instances test and write is the one of the notes; it
holds with the short search bound of the source, since `AddContact` only takes a slot out of the mask.

`NotesApp_proofs`: the inductive invariant is `IInv == TypeOK /\ ScreensMatchStore`. No conjunct of
`ScreensMatchStore` holds alone:

- `EditedNoteIsSaved` needs `ListIsCurrent` (a note is selected in the list), `NewNoteHasRoom` (else a
  failed creation would display a copy with another note's index), and `ValidateOnlyWhenLocked` (else
  a right code would show its page over an editor);
- `NewNoteHasRoom` needs `ListIsCurrent` (the Plus button relies on the list);
- `TypeOK` needs `NewParagraphHasRoom` and `EditedParagraphExists` (the array of paragraphs);
- `LockNeedsItsPasscode` needs `SetPinOnlyWhenOpen` (a passcode chosen replaces none).

The proof has one step per action, grouped by the parts of `Next`; `GoStep`, `DisplayStep`,
`EditStep`, `NewNoteStep`, `OpenStep` and `RestartStep` are the effects the actions share. From
`IInv` follow `TypeCorrect`, `ScreensCorrect`, `EditedNoteCorrect`, `ListCorrect`,
`EditedParagraphCorrect` (both conjuncts of `ScreensMatchStore` of interest by themselves),
`NewNoteCorrect`, and the action properties `NotesChangesConfirmed` and
`LockCorrect`.

`Commands_proofs`, on `SignFlow`: the inductive invariant of the answers is
`OneWaits == TypeOK /\ owed \in {0, 1} /\ ReviewIsOfContext` (`WaitingCorrect`): that no answer comes unasked
needs that a review on screen has its command waiting, and that needs that a command is only taken when
none waits. `SignaturesCorrect` (`SignedIsTheSession`) and `AnswersCorrect` (`OneAnswerEach`) are
action properties; the invariant under the first is `ContextIsTheSession`, which relates `G_context` to
the history `session` - the bytes received so far are the chunks of the session, the path is the one of
its start - together with `ReviewIsOfContext` (`ReviewCorrect`), since what is signed is what a review
drawn earlier let the user approve. GET_PUBLIC_KEY in the middle of a transfer is why the invariant only
speaks of a context whose request is a transaction.

On `SharedBuffer`, the inductive invariant is `BufferInv == BufferTypeOK /\ ChoiceEnds /\ OfferIsWhole`. That the buffer holds the
longest packet (`ByteMod <= BufferSize`, 256 bytes and lengths of one byte) is what keeps the pointers and both
terminators inside (`TitleRead`, `ContentRead`). `OfferCorrect` composes where the packing puts each byte
(`PackedBytes`, `PrefixIsPacket`) with where the reading leaves it (`NoteInBytes`) and with the uniqueness of
the end of a string (`EndInIs`). `StringsCorrect` needs `ChoiceEnds`: a refused packet may write over the last
terminator, but then leaves one of its own after it.
`AnswerCorrect` (`AnswerIsAPacket`) is about the bytes that are sent (`PackedIsPacket`), for notes of any length.

`Typing_proofs`, on `Passcode`: the inductive invariant has six conjuncts.
`KeypadMatchesLength` needs `TypedWithinBounds` (the keys are not drawn again at each length, so that a
length out of reach would leave them wrong) and `FirstCodeIsWhole` (the second step takes its bounds from
the length of the first); `ConfirmedPinIsWhole` follows from the same two, because a code that is the
start of the first one would pass the comparison. `WritesEndTheChoice` and `ScreensMatchLock` (a page to
choose a code is only up when the notes are not locked) give the refinement,
`PasscodeImplementsLock`: the last write is the step `Set` of `Lock`, the others stutter, and a power cut
after the first is `Torn`.

On `TextEdit`, the theorems are about any limit and any buffer; only `LimitKeepsTextIn` takes
`Limit < Capacity`, and says that such a buffer, as that of a content, is never left (finding 11 has the
callers for which it is). `TextInv` adds to `TextTypeOK` that no byte before the count is a terminator
and the byte at the count, if it is in the buffer, is one (`CountedInPlace`), from which `strlen` returns
the count, and that the space key is active only after a character (`FirstIsALetter`). `TrimCorrect` is an action property of the loop that erases the spaces.

`Lists_proofs`: `ListsInv == ContactsInv /\ NotesInv`, and a step of `Lists` is a step of each of the two
modules or leaves its part (`StepOfEach`), so that the two halves are preserved apart. Each half says that
the list on screen was cut from what is stored (`ShareIsCurrent`, `NoteListIsCurrent`), and that a kept
index is that of a bar or the next one; the page number needs the case of an empty list by itself
(`EmptyAtFirstPage`), where the code computes no page. Under it, the lemmas on `BarPages` show what the
loop over the bars gives for any height: pages of equal size but the last, one page for each bar, the
`>=` of the search at most one page early (`SelectedShown`).

`NotePages_proofs`: `PagesInv == TypeOK /\ Count!TypeOK /\ DisplayInv /\ CountInv`. `CountInv` is the
invariant of the two nested loops: the outer one is at the start of the page `counted`
(`AtPageStart`), the inner one has added paragraphs that fit, and has less room only when it tries the last
page again (`PageFilling`). `ParagraphsAreShown` and `CountCorrect` rest on what the cutting does to any
sequence of heights: the functions defined by recursion over the pages and over the paragraphs are
replaced by their steps (`StepsFollowed`), a page ends after it starts (`StartsGrow`), and the page of a
paragraph is the last that starts at or before it (`PageIs`). The installed provers cannot instantiate the library's
induction theorems, so each induction is the choice of a least counterexample in a set of naturals (`LeastOf`,
from `WFMin`), or the fact that a set of naturals closed under successor is all of them (`SetInduction`).

`Paragraphs_proofs` is about bytes, for any size of the buffer and any texts without `'\0'` and `'\n'`. The
inductive invariant `ViewInv` says that for some `n` the view is `Shown`: every byte before `n` is either
inside a paragraph or the one `'\0'` before the next pointer, and conversely (`CutAt`), nothing before `n`
is a `'\n'`, the byte at `n` is the last `'\0'` of the text, the last byte of the buffer is a `'\0'` too;
and that the string saved is that of the paragraphs. The conversely is what makes it inductive: with a stray
`'\0'` inside the text, joining would not give back what was split.
`CutUnique` says that a string is cut in one way only, so that splitting and joining are inverse
(`SplitBytes`, `JoinBytes`, `JoinSplit`, `SplitShown`) whatever residue follows the text. Each edit has a
lemma on the bytes (`AddDelimits`, `ReplaceBytes`, `ShiftKeeps`) and one on the paragraphs (`AddShown`,
`ReplaceShown`, `RemoveShown`): an addition is at the end of the text, a replacement moves the ends of the
later paragraphs by the difference of the lengths, a removal only writes before the end of the text and
joins at fewer pointers. What it leaves is followed copy by copy: the copies go down the text, so that each
is read before it is written over, and the paragraph put in place is cut at the next pointer; this is
`Left` of `Document`, for any lengths. `EqualRemoval` says when it is the removal that is meant: when each
paragraph but the last is as long as the one before it (finding 2 is the other case). `Redisplay` and
`Reopen` change nothing, `JoinShown` and `ReopenShown`. `FlatAppend` and `FlatReplace` give the length of
the string after an edit, so that the bound `Fits` keeps it in the buffer.

`TxParser_proofs`: `TxInv == TypeOK /\ Progress /\ FromClient`. `Progress` says, for the field the parser is
at, where the fields before it were read and what they are; it is about any buffer, and says nothing
once a field is refused (`RefusedProgress`). `FromClient` says of a buffer that a client serialized which
fields cannot be refused, so that the two refusals left are those of `RoundTrip`, a buffer too long and
a memo that is not ASCII. Each action has a lemma for the first two conjuncts (`ReadNonceStep`, and so
on), and `ClientStep` has the third.

What a value read is rests on arithmetic that the provers do not know. A number read byte by byte is the
last of a sequence of numbers, of which there is one only (`DigitsExist`, `DigitsAgree`, `AppendedIs`);
by induction on the number of bytes, `w` bytes are a number less than `Power(w)` (`BigEndianBound`) and
are written again as they were (`NumberWritten`), and a number less than `Power(w)` is read from the
bytes written for it (`BytesRead`, from `DividedTwice`: a quotient of a quotient). `VarintRead`
says that a varint is read as the number it was written for, and `VarintAhead` that the bytes after it
change nothing; `VarintWritten`, that the number read, written again, takes at most as many bytes, and
the same bytes when it takes as many. The first gives `RoundTripCorrect`, the second `AcceptedCorrect`,
whose last disjunct is the case of a length in a longer form than it needs. `AcceptedIsExact` starts from
a length that was read and that a `size_t` holds: without the first the buffer has no field `memo_len`
(finding 19), without the second the memo skipped is not the one whose length was read.

`OneTransaction`: `Serialize` is injective, so that the bytes that a client has signed for a transaction
are those of no other. `NoMemoLengthError`: the status MEMO_LENGTH_ERROR is never returned, whatever the
buffer; this is finding 19 seen from the side of the parser's answers.

Only model-checked: liveness (`CountEnds`: fairness and `ENABLED` are out of reach of the provers).

## 5. Findings

The first two have a run of their own. Each of the others is stated, from the doc or the comment it
contradicts, as a property of its module marked "Not so"; TLC finds it violated when it replaces the
properties of the cfg in brackets.

1. `SharedNoteIsWhole` (run `shared_note`): the note given to the host stops after its first
   paragraph. The share page is reached from a note on display, whose content is split in place, and
   `handler/get_shared_note.c:52` takes its `strlen`.
2. `RemovalKeepsOthers` (run `paragraph_removal`): removing a paragraph copies each later one over the
   one before it at unchanged addresses (`app_notes_display.c:258`): when their lengths differ, another
   paragraph is cut or overwritten, and the result is saved.
3. `CommandsAreAnswered` (`NotesApp.cfg`): ADD_ADDRESS before the new contact page was ever opened
   writes through `newContact`, which is NULL, and calls a NULL callback
   (`app_notes_new_contact.c:112`); the command gets no answer, though `handler/notes_handlers.h:10`
   says "Send APDU response".
4. `AddContactFailsOnlyWhenFull` (`Nvram.cfg`): `app_notesAddContact` looks for a slot below
   `NB_MAX_NOTES` (10) in an array of `NB_MAX_CONTACTS` (16): six slots are never used and adding fails
   while they are available ("Add the new address in any available slot", `app_notes_utils.c:234`).
5. `PendingIsOnScreen` (`NotesApp.cfg`): a review started while the modal passcode page is up is drawn
   under it; the code or the back key then replaces the review, and its command is never answered.
   `SignFlow` has this step too, which is why its `ReviewIsOfContext` says that the command of a review on
   screen waits, and not that a command that waits has its review.
6. `LockedByATypableCode` (`Passcode.cfg`): the lock is written before its passcode
   (`app_notes_utils.c:190`): power lost after that write leaves the notes locked with a code that
   cannot be typed.
7. `PathParsedBeforeSigned` (`SignFlow.cfg`): a start command refused for its path is followed all the
   same: its chunks are accepted and signed (`handler/sign_tx.c:37`).
8. `EndedIsNotContinued` (`SignFlow.cfg`): a flow that was rejected, signed or found wrong accepts more
   chunks, since only the type of the last request is tested (`handler/sign_tx.c:51`; "no state
   confusion", `tests/test_error_cmd.py:48`).
9. `SignedPageIsTrue` (`SignFlow.cfg`): the page says TRANSACTION SIGNED when the signature failed
   (`ui/nbgl_display_transaction.c:69`).
10. `TrimStaysInText` (`TextEdit.cfg`): confirming a text that was erased trims from before its first
    byte (`app_notes_text.c:53`).
11. `ConfirmedTitleFits`, `TextFits` (`TextEdit.cfg`): a title, or a name, longer than its place in NVRAM
    is typed and confirmed: the editor has the limit of a content (`app_notes_text.c:118`), and the last
    characters are written past the buffer.
12. `AddedContentFits` (`ParagraphEdit.cfg` with `Size = 6`): paragraphs that each fit the editor are
    added past the 512 bytes of the content (`app_notes_display.c:240`).
13. `SentWhileWaiting` (`NotesApp.cfg`): a note is answered to the host, and shown as sent, when the
    user has not chosen a receiver or has cancelled (`app_notes_share.c:335`).
14. `AddedWhileAsked` (`Lists.cfg`): ADD_ADDRESS adds a contact while its name is typed, after Cancel,
    or twice (`app_notes_new_contact.c:112`).
15. `SavedIsShown` (`SharedBuffer.cfg`): a packet refused as too short has already rewritten the title
    of the note that the user is choosing to keep (`handler/put_shared_note.c:49`).
16. `ResponseCarriesTheNote` (`SharedBuffer.cfg`): a content of 256 bytes or more is sent with its
    length modulo 256 (`handler/get_shared_note.c:52`).
17. `AddressIsKept` (`SharedBuffer.cfg`): the address is read as a string although its 32 bytes have no
    terminator (`handler/add_address.c:42`).
18. `EditedIsShown` (`NotePages.cfg`): after an edit the page shown may be the one before the paragraph
    (`app_notes_display.c:184`).
19. `LengthIsPresent`, `MemoIsBounded` (`TxParser.cfg`): `&&` where `||` is meant
    (`transaction/deserialize.c:56`): a missing length is taken for 0, and the limit of the memo is not
    tested. `NoMemoLengthError` proves that the error of that test is never returned.
20. `SoleParagraphIsRemoved` (`ParagraphEdit.cfg`): confirming an empty text for the only paragraph does not
    remove it, though the comment says "remove paragraph by shifting all paragraphs after it"
    (`app_notes_display.c:256`): the count goes to 0 and nothing is written, so that the text is still in the
    content that is saved and displayed again.

## 6. Not modelled, and the plan

Left out, and why:

- `address.c`: a slice of a hash that the SDK computes; no state, no case.
- `ui/bagl_display.c`, `ui/menu_bagl.c`: the build for two buttons, without notes. Its screens are
  declared by macros of the SDK; its two reviews make the choices that `SignFlow` has.
- `transaction_utils_format_memo`, the amount as text, the version and the name: formatting, answered
  or shown as it is, whatever the state.
- the reception of bytes, the exceptions and the exit in `app_main.c`: the SDK's.
- a content received with more than `NB_MAX_PARAGRAPHS` lines, and a note longer than `sharedBuffer`:
  writes past an array, whose effect depends on what the linker puts there. The models keep to the
  contents and notes that fit, and the hazard list names the lines.
- glyphs, layout, tunes and the refresh of the screen.

Every property of the passing runs is also proved, but `CountEnds`. What would extend the project is a
model of the content of more than `NB_MAX_PARAGRAPHS` lines, once the code says what becomes of it.
