# TLA+ verification of yapic.json

yapic.json is a JSON encoder and decoder for Python, written as a C++ extension
(`src/src/`). This directory holds TLA+ models of its encoder, its decoder and its
text buffers, TLC configurations that check them on small instances, and proofs
that TLAPS checks for every value of the constants. Paths below are relative to
the directory that contains the repository as `src/`.

## 1. Inventory

### The parts of the system

| Part | Source | State | Operations |
|---|---|---|---|
| `MemoryBuffer` | `buffer.h:38-157` | block `start`/`cursor`/`end`, `is_heap` | construct, `EnsureCapacity`, `AppendChar`, `AppendSlice`, `NewString`, `NewBytes`, `Reset` |
| `FileBuffer` | `buffer.h` (derived from `MemoryBuffer`) | the above and the `write` method | `SetTarget`, `Flush`, `EnsureCapacity` |
| `ChunkBuffer` | `buffer.h` | array of chunks, `chunk`, `totalLength` | `AppendSlice`, `AppendChar`, `GotoNextChunk`, `Resize`, `NewString`, `Write`, `Reset` |
| `BytesBuffer` | `buffer.h` | - | nothing instantiates it |
| `Encoder` | `encoder.h` | a buffer, `recursionDepth`, the C stack, the pending exception, owned references | `Encode`, `__encode_dict_key` and one function for each type |
| `dumps`, `dumpb`, `dump` | `json.cpp:45-136` | none | build an `Encoder`, run it, build the result |
| `loads` | `json.cpp` | none | choose a reader by the kind of input, build a `Decoder`, run it |
| String readers | `decoder.h` | the input, a buffer | one `Read` for str, bytes and bytearray input |
| `Decoder` | `decoder.h` | the cursor, the C stack, the hooks | values, lists, dicts, `objectHook` |
| Number reader | `decoder.h` | mantissa, exponent, a text buffer for `parseFloat` | states of a JSON number |
| Date reader | `decoder.h` | the parsed fields | ISO 8601 dates, times, offsets |
| Module state, errors, configuration, helpers | `json.h`, `error.h`, `config.h`, `util.h` | imported types | initialisation, messages |

Python stubs, the build, the generated table of string states and the benchmark
contain no behaviour; `double-conversion` and `yapic.core` are submodules.

### How they interact

`dumps`, `dumpb` and `dump` own one encoder, which owns one buffer. The encoder
asks the buffer for room (`Encoder_EnsureCapacity`), writes with
`Encoder_AppendFast` without a further test, and steps its cursor back by one
to replace the comma behind the last item by a closing bracket. In `dump`,
asking for room may hand the text to the `write` method of a Python object. While it encodes,
the encoder calls `__json__`, `default`, `str()`, iterators, `value` of enum
members and `tzinfo`: Python code that may raise.

`loads` picks one of five decoders by the kind of its input and runs it. The
decoder recurses through `ReadValue`, `ReadList` and `ReadDict`, which call the leaf
readers and the hooks. A string is tried as a date first, then as plain ASCII, and
then given to the reader of its input, which collects it in a `ChunkBuffer` (str)
or a `MemoryBuffer` (bytes, bytearray).

### What is hard

Nothing here runs concurrently and nothing is persisted. The difficulties are
those of recursive C code that may fail anywhere:

* room is requested in one place and consumed in others, closing brackets of
  surrounding containers included;
* the recursion limit is counted by hand in ten functions, and
  `Encoder_EnterRecursive` returns false *without* an exception and relies on
  whoever is further out to set one;
* every call may fail while other frames hold references;
* storage moves, is flushed, and is used again between two writes;
* cyclic objects, also by way of `__json__` and `default`, must come to an end;
* the decoder moves its cursor inside tests and steps it back for its messages,
  and goes on decoding with exceptions pending;
* one string is read by up to three functions, each of which may give up anywhere;
* numbers are accumulated in ints of fixed width and a text buffer of fixed size.

`PROJECT.json` lists each hazard at its line.

### What makes each part correct

* *Buffers*: the text that goes in comes out, all of it, once and in order
  (`TextSink`); the cursor stays inside the block; in `dump`, the file holds a
  prefix of the output after every failure, and memory is bounded by the
  largest request.
* *Encoder*: no write behind the buffer; a closing bracket replaces the right
  comma; the depth equals the number of levels; NULL if and only if there is an
  exception; the first exception wins; references are released; it terminates;
  and the caller sees the JSON text of the object, or a refusal of exactly those
  objects that are to be refused (`EncodeCall`).
* *Decoder*: it accepts JSON and nothing else and returns its meaning, the hooks
  applied (`LoadCall`); an error message points at the first wrong token; NULL
  if and only if there is an exception; references are released; it terminates.
* *Readers*: a number is the one that is written, or is refused; a string has
  exactly the characters its pieces stand for, however it is cut up; what the
  encoder writes for a date is read back as that date.

## 2. Modules

| Module | What it is |
|---|---|
| `TextSink` | abstract: what any text buffer promises |
| `BufferSizes` | the growth of blocks, debug and release |
| `MemoryBuffer` | the block cell by cell; implements `TextSink` |
| `FileBuffer` | extends `MemoryBuffer` with `Flush` and its own `EnsureCapacity`; implements `TextSink` |
| `ChunkBuffer` | the array of chunks; implements `TextSink` |
| `Objects` | the graph of Python objects and the dispatch on their types |
| `Encoder` | the walk over the graph with explicit stack, buffer, exceptions, references |
| `JsonText` | the JSON text of an object, a recursive function on the graph: the reference |
| `EncodeCall` | abstract: what a call of `dumps`, `dumpb` or `dump` promises |
| `EncoderCorrect` | `Encoder` with the mapping under which it implements `EncodeCall` |
| `JsonTokens` | what `loads` is given (tokens, arguments) and gives back |
| `Decoder` | `loads` and the recursive descent, with explicit stack, exceptions, references |
| `JsonGrammar` | the meaning of a text by the recursive grammar: the reference |
| `TokenOrder` | which token may stand at which place of a text, by the token before it and the bracket it is in: the reference for errors |
| `ErrorPosition` | `Decoder` compared with `TokenOrder` |
| `LoadCall` | abstract: what a call of `loads` promises |
| `DecoderCorrect` | `ErrorPosition` with the mapping under which it implements `LoadCall` |
| `InputText` | the characters of an input, a cursor and an outcome, shared by the leaf readers |
| `NumberReader` | `ReadNumber` and `__read_number` |
| `DateText` | the dates the encoder writes and the date reader |
| `StringReader` | `ReadString`, `__read_ascii`, the str reader and the UTF-8 reader |
| `Scalars` | the three readers composed under `ReadValue`, and their reference definitions: what a number, the pieces of a string and a moment mean |
| `SequenceLemmas` | facts about numbers and sequences that several proofs need |
| `BufferProofs`, `ChunkBufferProofs`, `EncoderProofs`, `DecoderProofs`, `ScalarsProofs`, `StringProofs`, `DateProofs` | theorems and proofs |
| `MCMemoryBuffer`, `MCFileBuffer`, `MCChunkBuffer`, `MCEncoder`, `MCNesting`, `MCDecoder`, `MCScalars` | instances for TLC |

Three abstract specifications say what the parts promise: `TextSink` (implemented by
each of the three buffers), `EncodeCall` (by the encoder) and `LoadCall` (by the
decoder). `Encoder` and `StringReader` rely on the promise of `TextSink`:
they hold the text of their buffer as a sequence.

Definitions called `Variant` in comments are plausible bugs: dropped guards,
missing resets, off-by-ones. The specifications do not use them. Put in the
place of the definition that follows, each makes a property fail, which shows
that the property notices that kind of bug (`mutants` in `PROJECT.json`).

### The buffers

`MemoryBuffer` represents the block as a sequence of cells in which unwritten
cells hold `Junk`. The distinction between moving out of the inline array
(`CopyBytes` of the used part) and `realloc` of the whole old block is kept, and
so are the three different tests for room: `AppendChar` and `AppendSlice` leave
one cell unused, the encoder's request does not. A failed allocation ends the
use of the buffer. `FileBuffer` starts where `SetTarget` has succeeded. `offered`, `taken` and
`delivered` are history variables. `maxchar`, the widest character seen, is
left out.

`ChunkBuffer` keeps the array with its stale chunks, because `Reset` reuses them.
`StartSlice` and `CloseSlice` have no caller.

### The encoder

A frame on `stack` is an encoding function that waits for a nested call; `pc`
says what happens next: `call` (an object is about to be dispatched), `loop` (a
container is about to fetch its next item), `return` and `fail` (a nested call
has returned true or false), `returned` and `raised` (the outermost call is
over). One action is one run of code from one such point to the next.

| Actions | Code |
|---|---|
| `EncodeLeaf`, `LeafNoRoom`, `LeafRaises`, `Refuse` | the functions for scalars, strings, dates, UUID, Decimal; the ends of the two dispatch functions |
| `EnterDict`, `EnterItemsView`, `EnterDataclass`, `EnterList`, `EnterIterable`, `EncodeEmptyDict`, `EnterNoRoom`, `EnterRaises` | the heads of the container functions, in the order in which each writes, counts its level and obtains references |
| `CallWrapper`, `CallEnumValue`, `UnwrapRaises` | `__json__`, `default`, `EncodeEnum` |
| `NextEntry`, `NextItem`, `NextRaises`, `BadItem`, `Close` | the loops |
| `KeyDone`, `FieldRaises`, `ItemDone`, `WrapperDone`, `CallFailed` | what follows a nested call |
| `Finish`, `FinishFails`, `ReturnNull` | `dumps`, `dumpb`, `dump` |

Abstractions:

* The text is a sequence of cells: punctuation, and for each character of a
  scalar the object it belongs to. A scalar has a *width* (what it writes) and a
  *need* (what it requests, never less); their digits and escapes are left out.
* Objects do not change during a call, although callbacks could change them
  (section 7). The graph may be cyclic, but there
  are no cycles through enum members only (`EnumAssumption`): a member is made from
  a value that exists before it. `EncodeEnum` counts no level, so on such a cycle it
  would not return at all.
* `Callback` is any failure for which Python code is responsible, including an
  `ItemsView` that yields no pair and `__dataclass_fields__` that is no dict.
  `Encode` is a refusal because of the object itself. `at` is the object whose
  function reported the excess of depth.
* An object has a `kind` and a `keyKind`, the branches of `Encode` and of
  `__encode_dict_key` it takes: they test some types exactly and some not, and in
  another order, so a member of an `IntEnum` is an int as a value and an enum as a key.
* `PyObject_IsInstance` may raise; its -1 is taken for a yes (`src/src/encoder.h:131`), and
  `EncodeItemsView` runs on any object with that exception pending
  (`TakenForView`). `PyObject_GetIter` fails and replaces it, or the iterator yields
  something else than a pair, or nothing. A real `ItemsView` goes on, with the exception pending
  through the items that follow, until a `PyObject_HasAttr` clears it
  (`LookupClears`), Python code is called and fails because of it, or the loop ends and finds it.
  One case is left out: an object that is no `ItemsView` but whose iterator yields pairs
  would be written as an object up to the end of the loop. `Enum.Check` and
  `UUID.Check` are calls into `yapic.core`, which is not in the tree; they are taken
  not to raise.
* In `dump`, the encoder sees only the text held, the size and the text written;
  the cells are the business of `FileBuffer`.
* `refs` counts references per kind of frame. Two real irregularities are kept:
  `EncodeItemsView` releases its iterator twice when the iterator raises, and
  both it and `EncodeDataclass` leave some references behind on failures.

### The decoder

A text is a sequence of tokens; a token is what one leaf function consumes or
refuses as a whole. A frame on `stack` is a `ReadList` or `ReadDict` that waits for a
nested `ReadValue` (or, in a dict, is about to read a key). `pc` says what
happens next: `loads`, `value` (a value is to be read), `key`, `got` (a
`ReadValue` has returned `ret`), `done`.

| Actions | Code |
|---|---|
| `Loads` | the tests of the arguments and the choice of a decoder |
| `ReadScalar` | `ReadValue` with the leaf functions: strings, dates, numbers, literals, and characters that begin no value |
| `EnterList`, `EnterDict` | `ReadList`, `ReadDict` up to the first item, `[]` and `{}` included |
| `ReadKey` | the key and the colon of `ReadDict` |
| `ItemDone`, `PairDone`, `ChildFailed` | what follows a nested `ReadValue`: store, go on, close, call the hook, or fail |
| `Finish` | `Decode`: nothing may follow the value |

* `Eat` is `Decoder_EatWhiteSpace`. `pos` is the cursor between two steps; where the
  code advances it inside a test and steps it back for a message, the position
  in the message is what counts (`NoColon`).
* `owns` names the references that the local variables of a frame hold;
  `Abandons` is what the error label releases. Anything released without being
  owned, or owned and not released, goes into `unbalanced`.
* Every allocation and every hook may fail (`Failed`). An exception may be pending
  while decoding goes on: after a hook that is not callable, and after a
  `PyList_Append` that failed. A function that sets an exception, or a hook that is
  called, then fails for that reason. `ReadString` and `__read_ascii` clear
  pending exceptions, which is modelled as well.
* `swallowed` records that a failure was not passed on. For such calls,
  and for arguments that are not hooks, `LoadCall` promises nothing.

### The leaf readers

`InputText` gives the input as character codes behind which a NUL stands, a cursor, and
`pc`, the loop or label that runs next. The `kind` of an input is one of the three widths of a
str, or bytes. `Scalars` puts the readers together.

* `NumberReader` has one action for each state of the number: `IntDigit`, `BigDigit`
  (behind the limit), `Point`, `FractionDigit`, `Exponent`, `ExponentDigit`,
  `MakeFloat`. `intValue` wraps at its width. `Convert` is the difference in the type of the input's
  characters: for a 4-byte str it is unsigned, and a negative digit becomes a large
  positive one. `floatData` is the text in `floatBuffer`
  or the digits for `Strtod`; `Strtod` itself belongs to double-conversion, so
  a float is represented by sign, digits and exponent.
* `StringReader` goes through `ReadString` (try a date), `ReadAscii` (`__read_ascii`, for
  inputs with one byte per character) and the loops of the two readers (`ReadSlice`,
  `ReadEscape`, `ReadUtf8`, `EndString`); `EndMissing` and `NoMemory` are their
  failures. `maxchar` is the bitwise OR that decides the width of the new str. A date that
  fails for want of memory is read again as a str; `starved` remembers that.
* `DateText` has the form of dates, times and offsets (`MomentsAt`), the validity of
  their fields, and what `EncodeDate`, `EncodeTime` and `EncodeDateTime` write.

## 3. Runs

| Run | Instance | What it shows |
|---|---|---|
| `memory_buffer` | release growth, inline array of 2, slices of 0, 2 and 3 characters, `MaxText` 5 | nothing is lost by growing, moving to the heap, growing on the heap, or `Reset`; the block never shrinks; `TextSink` is implemented |
| `file_buffer` | debug growth, inline array of 2, slices of 1 to 3, requests up to 1 larger, `MaxText` 6 | flushing, growing and failing in every order lose, repeat or reorder nothing; the file has a prefix; the block stays small |
| `chunk_buffer` | one inline chunk, input of 2 characters, `MaxText` 4 | doubling the array and reusing stale chunks keep the text |
| `encoder` | 34 objects, each the root in turn, both targets, `MaxDepth` 4, `Extra` 10, inline 10, debug growth, objects with `default` and objects that are refused | the encoder's properties of section 4 |
| `decoder` | every text of up to 4 of 13 tokens; every text one token away from two nested texts of 14 and 19 tokens; those and a scalar with every combination of arguments | the decoder's properties of section 4 |
| `scalars` | a long long of 8 bits and an int of 6 (`IntMax` 127, `ExpMax` 31), `floatBuffer` of 6 characters (`MaxDigits`); all texts of up to 4 characters of `0 1 5 6 - + . e` in 1-byte and 4-byte str, and longer numbers in all kinds of input; strings of up to 3 pieces in the four kinds of input, and all beginnings of those of 2; 274 dates, times and datetimes | the readers' properties of section 4 |
| `nesting_append` | 12 nested lists, the shipped constants of the debug build | **fails**: finding 1 |
| `nesting_leave` | 1000 nested lists, the shipped limit | **fails**: finding 2 |
| `hook_empty` | the calls of `decoder`, all texts of up to 2 tokens | **fails**: finding 3 |
| `number_wrap` | the numbers of `scalars` in narrow input, all texts of up to 3 characters | **fails**: finding 4 |
| `wide_ints` | the same, and 4-byte str | **fails**: finding 5 |
| `time_offset` | the times with an offset of `scalars` | **fails**: finding 6 |

### Why the bounds are enough

* With an inline array of 2 cells, an append may fit, move to the heap, or grow
  there, and 5 or 6 characters reach two growths in a row in either build.
  A `ChunkBuffer` that starts with one chunk doubles twice within 4 characters.
* The debug build allocates exactly what is requested, so `encoder` has no room
  to spare that would hide a missing request. Since `NoOverrun` needs more spare room
  than nesting (section 5), `Extra` is 10, its real value, and `MaxDepth` 4.
* The objects of `MCEncoder` contain every type as a value, as an item, and as a
  key where keys of the type have a branch; empty containers; containers of one
  and of several items; keys and values that are refused; a list that contains
  itself, and a dict that reaches itself through `__json__`; objects that `default` turns into
  such, and objects it is not there for; an `ItemsView` with and without items that
  call Python code, for exceptions that stay pending; and chains that end
  exactly at the limit and one beyond. Each callback raises and each allocation
  fails in some behaviour of the run.
* Four tokens are every way to begin, to break and to end a list of one or two
  items and a dict of one (with a value missing, a comma too many, a wrong
  bracket, white space anywhere). The longer texts nest each container in the
  other, with dates, floats, repeated keys and white space between all tokens;
  changing one token of them reaches every error of the loops at depth 2 and 3.
* The leaf readers do not care how wide an int is. With 8 bits, three digits pass the
  limits (127 and -128) and one more digit passes the range by more than one turn.
  What matters for a 4-byte str is that an int is narrower than a long long and
  wide enough for a digit, as 6 bits are.
  A `floatBuffer` of 6 is full before, at and behind a point, a mark and a sign.
* The pieces of strings are: an ASCII and a control character, a short escape, a bad
  escape, a `\u` escape, both halves of a pair, an incomplete `\u`, and for each kind of
  input its wide characters; for bytes also every kind of malformed UTF-8. Three of
  them in a row contain every order of the two halves of a pair with anything
  between them, and every change between the reader's loops.
* `MaxText` in the buffer modules is a bound of the model: clients stop there.
  The buffer runs therefore switch the deadlock check off, as do the runs of the
  decoder and the readers, which stop when the call is over (`decoder` checks
  `Terminates` instead). In `encoder` the check is on.

### Fairness

`FairSpec` of `Encoder` and `FairSpec` of `Decoder` assume `WF_vars(Next)`. Both are
sequential code that keeps running while it can; that Python callbacks and hooks
return is part of the abstraction. Everything else is a safety property and is
checked or proved under `Spec`.

## 4. Properties

Of the encoder:

* `DepthCountsLevels`: while nothing has failed, `recursionDepth` is the number
  of counted frames.
* `SomeoneReports`: while a failure is passed up, there is an exception, or the
  limit is exceeded and all the levels that could report it are still there.
  `NullMeansException` is what follows for the caller.
* `NoOverrun`, `Slack`: the text never exceeds the block; at every point there
  is still room for a closing bracket of every level.
* `CommaInBuffer`: what a closing bracket overwrites is a comma, and no `Flush`
  has taken it away.
* `PendingIsSeen`: when an exception stays pending while the encoding goes on, an
  `EncodeItemsView` that will look for it is on the stack: the call cannot end well.
* `FirstExceptionKept`, `InnermostReports`: the exception a call fails with is not
  replaced while it unwinds, and the depth error is reported by the function at
  the limit. (Before the call fails, an exception may be replaced, by way of `TakenForView`.)
* `RefsReleased`: references are balanced on success, and on failure except for
  `ItemsView` and dataclasses.
* `ImplementsCall`: the refinement of `EncodeCall`, which compares the result
  with `JsonText`, written without buffer, stack or position.
* `Terminates`: every call ends, also for cyclic objects.

Of the decoder:

* `ImplementsLoad`: the refinement of `LoadCall`. The value returned is the one
  `JsonGrammar` gives the text, with `parse_float`, `parse_date` and `object_hook` applied, and a
  `JsonDecodeError` is only raised for a text that has no meaning.
* `ErrorInPlace`: the position in a `JsonDecodeError` is that of the first token with
  which no acceptable text could go on, and `Unexpected end` is said of the end.
* `AcceptsInOrder`: an object is returned only for a text in which every token is in
  its place and every bracket closed, whatever hooks and allocations do. It is
  weaker than `ImplementsLoad` where that promises something, and holds where it does not.
* `NullMeansError`: NULL if and only if an exception is pending, with the
  exceptions the code makes: a hook that is not callable, a swallowed failure.
* `RefsBalanced`: each reference is released once, on every way out.
* `Terminates`: every call of `loads` returns.

Of the leaf readers:

* `NumberIsRead`: the result is the number written (for a float, the sign, digits and
  exponent handed to `Strtod`), with the cursor behind it; a text that is no number is
  refused; when `floatBuffer` is full, the rest stays in front of the cursor and makes the
  caller fail, instead of being dropped in silence. It leaves out, by name, ints that wrap
  around before the last digit (`WrapsEarly`, finding 4), negative ints in a 4-byte str
  (`WideNegative`, finding 5), the `e-` that is not written when `floatBuffer` is almost
  full (`MarkDropped`) and, without `parse_float`, exponents that do not fit an int
  (`PowerTooBig`); see section 7.
* `StringIsRead`: the text of a str is what its pieces stand for, whichever reader read
  which part; bad pieces and missing ends are refused, and nothing else is, unless memory
  was short. Two cases are left open. Raw control characters are read by the code, but
  are no strict JSON, of which `src/README.rst:30` speaks: they may be read or refused. And
  `PyUnicode_New` refuses an OR of characters that is no character (U+100000 next to
  U+FFFFF): such a string, which is valid, may be refused. A text with the form of a
  date comes back as a str only for want of memory.
* `MomentsReadBack`: `loads` reads what `dumps` writes for a date, datetime or time as the same
  moment, less the seconds of an offset, for which the format has no place; times without
  seconds stay strings. For want of memory a str comes back, or an error, but no
  other moment. Times with a tzinfo are the subject of `time_offset`.

## 5. Findings

1. `Encoder_AppendFast` asserts that there is room for the character it writes
   (`src/src/encoder.h:23`). Closing brackets are written without a request, and
   the surplus of every request is `Encoder_EXTRA_CAPACITY`, 10
   (`src/src/encoder.h:25`), while up to 1000 levels may be closed in a row
   (`src/src/config.h:71`). With the debug build's constants twelve nested lists
   break the assertion (`nesting_append`). The theorem `EnoughRoom` says which calls
   are safe with any constants: those that nest at most `Extra - 4` levels, which is six.
2. `Encoder_LeaveRecursive` asserts `recursionDepth < maxRecursionDepth`
   (`src/src/encoder.h:38`) before it decrements, but `Encoder_EnterRecursive`
   admits `recursionDepth = maxRecursionDepth`. The function at the deepest level allowed fails the
   assertion when it returns (`nesting_leave`). `DepthCountsLevels` shows that
   the bound that holds there is `<=`.
3. The stub says that the hook is called with any object decoded and that its result
   takes the place of the dict (`src/src/_json.pyi:22-24`). `{}` returns before the
   hook is reached (`src/src/decoder.h:981`, `hook_empty`).
4. An int that overflows is to be handled as a double (`src/src/decoder.h:785`). The test
   looks at the sign after the last digit only: if the digit before it has already made
   the int wrap around, a wrong int may be returned (`number_wrap`, which reads
   1281 as 1 with 8 bits; by the same arithmetic 64 bits read 92233720368547758081 as 1).
   The model takes signed overflow to wrap around, as it does in builds with
   `-fwrapv`, which extension modules of CPython are usually compiled with.
5. A negative int in a 4-byte str is not read as an int (`src/src/decoder.h:694`,
   `wide_ints`): `'0' - *ch` is unsigned there, as `Py_UCS4` is, so what is added is not the
   negative digit but 2^32 less the digit, which looks like an overflow. The text then comes
   back as a float, and with enough digits as a wrong int, against `"42", "int"`
   (`src/README.rst:184`).
6. A time with a tzinfo is written without its offset (`src/src/encoder.h:455`,
   `time_offset`), against `"time", ... "12:34:56+0300"` (`src/README.rst:217`) and the
   comment above `EncodeTime`.

Seen and not a run: `loads` sets a `TypeError` for `object_hook=None` (`src/src/json.cpp:146`), the
default in the stub (`src/src/_json.pyi:14`), and decodes on with it pending. The decoder's
runs contain such calls, and the properties excuse them by name (`BadArgument`).

## 6. Proofs

All proof modules are checked to the last leaf. Their assumptions are the named
`ASSUME`s of the modules: `ObjectAssumption`, `EnumAssumption`, `EncoderAssumption`,
`BuildAssumption`, `BufferAssumption`, `ChunkAssumption`, `TokenAssumption`,
`NumberAssumption`, `InputAssumption`, `StringAssumption`,
`MomentAssumption`. TLC evaluates them in the passing runs.

* `BufferProofs`, for every alphabet, inline size, set of slices and both builds:
  `CursorInBlock` (`[]TypeInv`) and `TextIntact` (`[]Intact`), which together are inductive.
  Two lemmas carry them: storing in a block with room appends to its text (`PutAppends`),
  and growing keeps the text and provides the room asked for (`GrowthKeepsText`).
  `MemoryIsSink` maps each action to the one action of `TextSink` it implements;
  `BlockNeverShrinks` is the action property. Of the `FileBuffer`: `FileTypeCorrect`,
  `FileKeepsAll`, `FileHoldsPrefix`, `FileBlockBounded` and `FileIsSink`. The invariant
  `FileInv` strengthens `NothingLost`, which speaks of buffers in use only, to `InOrder`:
  what was written followed by what is pending is what was offered, after a failure too.
  `WrittenIsPrefix` follows from it. The growth lemmas are the same.
* `ChunkBufferProofs`: `ChunkTypeCorrect`, `ChunkStaysInArray`, `ChunksMakeText` and
  `ChunkIsSink`. `NothingMissing` concatenates the chunks with the library's `FlattenSeq`,
  a recursive function. That such a function exists and what it gives for one chunk
  more is proved by the least number for which it would not hold (`JoinsExist`,
  `JoinsAgree`, from which `FlattenMore` and `PiecesAppend`).
  `SequenceLemmas` has these and the principle, which stands in for induction.
* `EncoderProofs`, for every object graph, limit and buffer size:
  - `TypeCorrect`, `DepthExact`, `FailureReported` and `NullContract` from the inductive
    invariant `Core == TypeOK /\ DepthCountsLevels /\ SomeoneReports`. `PendingSeen` is an
    invariant of its own (`PendingInv`), with which a call that returns has no exception.
    `NullMeansException` is not inductive: that a depth failure is reported in the end
    follows because the number of levels on the stack equals `MaxDepth`, which is not 0, so
    a frame that reports is still there. That number is right because `DepthCountsLevels`
    holds until the failure.
  - `ExceptionStays` and `LimitNamed`, the two action properties, from `Core`: while
    a failure is passed up, an exception is set only where there was none, and the depth error
    where the stack has not lost a level.
  - `CommaStays`: `Core` and `CommaInBuffer` together.
  - `EnoughRoom` and `BracketsHaveRoom`: `Spec /\ [](depth <= Extra - 4) => []NoOverrun`,
    and the same for `Slack`. The hypothesis is about the call, not about the constants:
    with the shipped ones (10 and 1000) it holds of every call that nests at most six
    levels, and finding 1 is a call that nests more. `Slack` is the strengthening: after
    every return there is room for as many brackets as there are levels.
  - `ReferencesReleased`. `RefsReleased` speaks of the end of
    a call; the invariant `RefsInv` says for each kind of frame at each moment
    that the count of references is the sum of what its frames on the stack own (`Weight`),
    less the item that is not fetched yet. The kinds with irregularities are left
    out once a call fails.
  - `PromiseKept`, the refinement `ImplementsCall`: on every object graph the encoder with
    its buffer, its stack and its flushes does what `EncodeCall` promises. What the caller
    has seen does not determine where the encoder is, so the invariant `TextInv` relates all
    of the state to the text asked for: the text in the buffer and the file, then the text
    of the object on call, then what each frame on the stack still has to write
    (`FrameRest`, added up by `Owes`) is the outcome of the root. In a loop the last comma
    is not part of it (the closing bracket overwrites it, for which `CommaInBuffer` is
    needed); after a failure only what a file has received counts, and the exception is the
    reason the root is refused for, if it is a refusal (`Explained`). A container that is
    too deep stops the outcome where its elements would be, and everything the frames owe
    behind it is dropped, as in `Then`. `JsonText` defines the outcome with recursive
    functions: `After` along the elements, `Outcome` along the graph. That they satisfy
    their equations is proved (`AfterRecursion`, `OutcomeRecursion`) level by level, from
    the deepest to the outermost, and inside a level along the chains of enum members, which
    end by `EnumAssumption`: on a cyclic graph it is the limit of nesting that makes the
    text exist.
* `DecoderProofs`, for every text and all arguments: `TypeCorrect`, `ReleasedOnce` and
  `NullContract`, from the inductive invariant
  `IInv == TypeOK /\ StackInv /\ TopInv /\ ErrorInv`. A frame below the top of a dict
  has a key, the one that reads a key has none, and an exception that is
  pending while decoding goes on has one of two excuses. That the cursor stays in
  the text rests on the existence of what `Eat` chooses (`EatStops`).
  For texts of any nesting also `ErrorsInPlace` and
  `OnlyOrderAccepted`. Both speak of the end of a call; the invariant `OrderInv`
  says of each step that, while nothing has failed, all tokens before the cursor are in
  place, that the frames on the stack are the brackets open at the cursor, outermost first
  (by `Depth` and `LastOpen`, the last bracket opened at each depth), and that the
  token before the cursor is the one `pc` and the frame suggest. That the
  token refused is the first wrong one then follows by comparing the tests of the code
  with `Expected`.
* `ScalarsProofs`, for every input, width of int and size of `floatBuffer`:
  - `ReadersInText` (`[]TypeOK`), from `TypeInv`.
  - `NumbersRead` (`[]NumberIsRead`). The invariant `NumberInv` says at each label of
    `__read_number` that what has been read is what is written before the cursor: `intValue`
    is the value of the digits so far, `floatData` their text, the exponent the value of its
    digits, and the end of each part (`AfterDigits`) is the same seen from the cursor. At
    the label `int` the value so far is at most a tenth of the limit, so that the next one
    exceeds it by less than ten: wrapped around, it has the wrong sign and `CheckOverflow`
    finds it, provided that it is the last; that it is not an earlier one is what excluding
    `WrapsEarly` means. Negative ints in a 4-byte str are excluded by `WideNegative` from
    the start; a float there that begins with a minus is not, because it is made of the
    digits and not of `intValue`. A prefix of the exponent is worth no more than the whole
    (`WorthGrows`), which keeps the accumulated exponent within its int. The value of a text
    is a recursive function of its length (`ValueOf`); that it is the one its equation asks
    for follows by the least length for which it would not be.
* `StringProofs`, for every kind of input, for strings of any pieces, whole or cut off
  anywhere: `StringsRead` (`[]StringIsRead`). The invariant `StringInv` says that, while a
  string is read, what lies before the cursor is a whole number of pieces, the first wrong
  one not among them (`AtPiece`); that no pair of surrogates is cut in two; that `strBuffer`
  is what these pieces stand for (`CharsTo`); and that `maxchar` is at least each character
  of it (`Wide`), so that the width of the new str suffices. `StringAssumption` says what
  the strings of the instance are: an opening quote, pieces that are well formed or wrong in
  one of the ways the reference names, and a closing quote, or a prefix of that, or
  something behind it. A slice read without looking at each character is a number of
  verbatim pieces (`SliceReads`, by the least piece for which it would not be); an escape is
  one piece or a pair (`EscapeReads`); a sequence of UTF-8 is decoded to the character whose
  encoding it is, and one that is no encoding is refused at the position where it begins
  (`Utf8Reads`), which is arithmetic on the base 64 digits of the character. `BitOr` is
  bounded below by both operands and above by their sum (`BitOrBounds`).
* `DateProofs`, for every valid date, time and datetime with or without an offset, in every
  kind of input: `MomentsRead` (`[]MomentsReadBack`). A number in so many decimals is
  read as that number where its digits stand (`TwoRead`, `FourRead`, `SixRead`); a text put
  together from parts is read part by part (`ReadsParts`); the digits of a fraction end
  where the offset or the quote begins (`MicrosecondsRead`, for which the character that follows
  must be no digit and no point); and the sign and the two fields of an offset give it
  back without its seconds (`OffsetRead`). So the form the writer has chosen is the one the
  reader finds, and the moment it makes ends at the closing quote (`DateBack`,
  `TimeBack`, `DateTimeBack`). A time without seconds has none of the forms (`BareIs`): the
  invariant `MomentInv` follows it through the readers of strings, with the
  bound on `maxchar` that lets the new str be made; a moment for which there was no memory takes
  the same way. `MomentAssumption` says what
  the instance gives: the text of a moment with fields the constructors of `datetime`
  accept, in quotes, and `parse_date`.

Only model-checked: `Terminates` of both halves (liveness is beyond the prover), and the
refinement `ImplementsLoad`, whose reference `JsonGrammar` recurs over the text with a
`RECURSIVE` operator.

## 7. Not modelled

* The parsing of arguments, module initialisation, the wording of messages, the
  generated table of string states, `homogene_list.h` (nothing uses it), `BytesBuffer`
  (nothing instantiates it), stubs, build and benchmark.
* The submodules are not in the tree: `Strtod` and the text of floats
  (double-conversion), `yapic.core`.
* The characters that the encoder writes for scalars other than dates: they are
  given by a width and a need. `maxchar` of the buffers is left out; the reader's is
  modelled.
* Objects that callbacks change while the encoder walks over them, and a bytearray
  that a hook resizes while it is decoded: what the code then reads depends on
  memory it no longer owns.
* The depth of the C stack: the decoder has no limit of nesting.
* An object that is no `ItemsView`, is taken for one because the test raised, and whose
  iterator yields pairs (section 2).
* References of leaf functions, such as a tzinfo that `NewTime` and `NewDateTime` do
  not release, and the irregularities of `EncodeItemsView` and `EncodeDataclass` on
  failing calls: the repository states no expectation for them, so they are
  named as hazards and left out of the properties.
* Floats whose exponent does not fit an int (undefined or `Strtod`'s business), and
  the `e-` that is dropped at the end of a full `floatBuffer`: named as hazards.

## 8. Plan

Done, in order of importance: the buffers and `TextSink`; the encoder and `EncodeCall`;
the decoder and `LoadCall`; the leaf readers; `loads` with hooks that are not callable;
the proofs of section 6. What could follow:

1. The proof of `ImplementsLoad`: `Meaning` as a recursive function of the length of what is
   left, as `JsonText` is one of the levels left, and the frames of the decoder as the parts
   read of it.
2. A graph of objects that callbacks change: lists that shrink under `EncodeList`, with the
   items it may still read.
3. `StringReader` composed with `ChunkBuffer` and `MemoryBuffer` themselves, in place of
   the promise of `TextSink` that both are proved to keep.
