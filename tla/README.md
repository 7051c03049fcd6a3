# Formal model of miniDB

TLA+ modules, TLC configurations and TLAPS proofs for the program in `src/`: a small SQL
database (client, server, parser, executor, storage) written in C++. The modules are
translated from the source, and `PROJECT.json` maps every definition to the lines it models.

    tlc -config MCCatalog.cfg MCCatalog.tla      # model-check one instance
    tlapm CatalogProofs.tla                      # check one module's proofs

Paths below are relative to `src/src/`. The repository does not compile on Linux as it
stands (`executor.cpp` calls `rmdir` without `unistd.h`). The models are of what the code
says.

## 1. The system

A client REPL reads a line, opens a TCP connection, and sends the line as one JSON request.
One server thread accepts one connection at a time and reads a request. It takes the SQL out
of the JSON, lexes and parses it, and hands the statement to the one `Executor`. It then
writes the answer as a line of JSON and reads the same connection again, until the connection
yields an empty line. `exit` from any client ends the accept loop, and then
`executor.shutdown()` saves the open database.

| Component | State | Operations | Correct when |
|---|---|---|---|
| Primary-key index (`storage/index.cpp`) | a vector of (key, row id), sorted by key | `insert`, `find`, `remove`, `clear`, all through the bisection `_find_pos` | it is sorted, without double keys, and behaves as a map |
| DML on a table (`execution/executor.cpp` 220-530, `storage/table.cpp`, `row.cpp`) | columns, rows and the table's index | INSERT, DELETE, UPDATE, SELECT | a statement changes exactly the rows its WHERE names, an error changes nothing, keys stay unique and the index agrees with the rows |
| Databases and files (`executor.cpp` 37-215, `storage/database.cpp`, `table.cpp` 78-123) | the open database (three parallel vectors), its name, the directories and `.dat` files | CREATE, DROP, USE, `save_all`, `shutdown` | memory and disk agree, and no statement loses the data of another table |
| Table file format (`table.cpp` 78-188) | the text of one file | `save_to_file`, `load_from_file` | what is saved is what is loaded, and a file that was cut short is refused |
| Registry (`database.cpp` 126-183) | a list of databases and a current one | `create_database`, `drop_database`, `use_database` | called by tests only |
| Lexer (`parser/lexer.cpp`) | a position, a line and a column | `tokenize` and its `scan_` functions | the tokens spell the text at their true positions, and a text outside the language is refused |
| Parser (`parser/parser.cpp`) | tokens, a position, the statement being built | nine `parse_` functions | sentences become the statement they spell, and anything read is in the statement |
| Parser C API (`parser/parser_c.cpp`) | none | conversion to C structs | - |
| JSON protocol (`network/protocol.cpp`) | none | serialise results, extract the SQL | the SQL arrives as typed, and a cut answer is not taken for another one |
| Server (`network/server.cpp`) | the socket being served, the `running` flag, the kernel's backlog | accept, read, handle, write, shut down | each statement runs at most once and the answer tells the truth |
| Client (`network/client.cpp`, `cli/client_main.cpp`) | one socket per call | connect, two writes, `recv_line`, `display_response` | every call returns and what is shown is what was answered |
| Containers (`core/vector.hpp`, `string.hpp`) | a block on the heap, a size, a capacity | `push_back`, `pop_back`, `clear`, `reserve`, copies and moves | a vector is a list, each block has one owner and each element one life |

Interactions: the client calls the server over a socket; the server calls lexer, parser and
executor synchronously; the executor calls the table and, separately, its index; `save_all`
writes the open database to disk when it is left. All connections share one executor.

What is hard here:

- **Order and failure on the wire.** A message and its newline are two writes, each side may
  be gone between them, buffers are cut at `MAX_MSG - 1`, and nothing handles SIGPIPE.
- **Crashes.** `fopen(path, "w")` truncates the only copy of a table before it is rewritten.
- **Two structures kept in step by hand.** Rows and index; the vectors of names, tables and
  indexes; `_current_db` and `_current_db_name`.
- **Loops over data that changes under them.** DELETE removes rows while it runs, and UPDATE
  writes the column its own WHERE reads.
- **One executor behind all connections.** One client's USE moves every other client, and
  `save_all` runs inside a statement while the others wait.
- **Text formats without escapes.** A quote in a request, a separator or an empty string in a
  table file, a `":"` in an answer.
- **Boundaries.** The bisection and its `~lo`, `atoi`'s saturation and truncation, the
  parser's unchecked token reads, the lexer's look-ahead, growth by hand in `Vector`.

`PROJECT.json` lists each hazard at its line with the properties that would catch it, or why none does.

## 2. The modules

    IndexMap  <--- refined by ---  Index <--- EXTENDS --- IndexProofs
       ^
       | INSTANCE
      Dml                                         (and so DmlProofs, ServerProofs,
    Catalog <--- EXTENDS --- CatalogProofs         VectorProofs, LexerProofs, ParserProofs)
       ^                          ^
       | INSTANCE                 | INSTANCE (and ServerProofs)
    Session <--- EXTENDS --- SessionProofs
    Session --- INSTANCE, and refines ---> Server --- refines ---> Service
    Vector  --- refines ---> Lists
    Answer  --- EXTENDS ---> TableFile
    Lexer, Parser

| Module | Models | Steps |
|---|---|---|
| `IndexMap` | what `index.hpp` promises: a map | a call, later its effect and answer in one step |
| `Index` | `index.cpp` | `Begin`, one `Probe` per loop iteration, `Miss`, then the operation's effect |
| `Dml` | the four DML handlers with the Table, Row and Value code they call | the checks before the loop, then one row per step; the index is `IndexMap` |
| `Catalog` | DDL handlers, `save_all`, shutdown, crash, restart | one statement per step, and inside `save_all` each `fopen` and each write |
| `Server` | accept loop, client calls, sockets | each write and each read of either side |
| `Service` | what the server promises: first come, first served, at most once | a call, its arrival, execution, end and return |
| `Session` | `Server` and `Catalog` in one process | a step of either; inside a statement each step of `save_all` |
| `Lexer` | `tokenize` and the `scan_` functions | one character, or the making of a token |
| `Parser` | every `parse_` function, and the cut in `json_get_string` | one token per step |
| `TableFile` | `save_to_file` and `load_from_file`, character by character | the write, whole or cut; then one line per step |
| `Answer` | `serialize_exec_result` and `display_response` | functions of a result and of a text; the states are `TableFile`'s |
| `Vector` | `core/vector.hpp` and `Table::remove_row` | one element constructed, moved or destroyed |
| `Lists` | what `Vector` is taken for | an operation is called, and takes effect |
| `MC...` | small instances | - |
| `...Proofs` | proofs about the module they are named after, with the lemmas about sequences they cite | - |

How state and actions correspond to the code:

- **Index.** `lo`, `hi` and `pos` are the locals and the result of `_find_pos`, 0-based as in
  the code; `entries[p + 1]` is `_entries[p]`. `BitNot` is C++ `~`.
- **Dml.** `i` is the loop variable plus one. `Atoi` models strtol's saturation and the
  conversion of long to int with the widths `IntMax` and `LongMax`. `before` and `rekeyed` are
  history variables. A string key is indexed under 0, as `pk_val`'s initial value makes it.
  Column types are not modelled, because no DML handler looks at them.
- **Catalog.** `db` is `*_current_db` with its three vectors, and `Null` is the null pointer.
  `files[d][t]` is `d/t.dat`. A table's contents are one opaque value, and the index is
  represented by the contents it was built from, so `Aligned` can say that index and table at
  one position belong together. `caller` and `pos` are the stack of a running `save_all`.
  `fopen`, the writes, `mkdir`, `rmdir` and `std::remove` may each fail for any one file or
  directory, whatever the reason: when `fopen` does, `save_all` returns and the tables behind
  that one stay unsaved (`SaveOpen`); a failed write goes unnoticed (`SaveWriteFails`). `Crash`
  may come between any two steps. `damaged` and `refused` are history variables: the files a
  crash or a failed write left truncated, and the one the last `save_all` could not open.
- **Server.** A connection `<<c, n>>` is the n-th call of client `c`. `sent`, `read` and
  `back` count the two writes each side makes. Statements are told apart by what the network
  code tells apart: a request that fills the buffer, one that is refused, an answer that
  overflows the client's buffer, `exit`. A write to a peer that has gone may succeed, fail or,
  after a reset, raise SIGPIPE. One `send` call is one step; short writes are left out.
- **Parser.** The parser looks at one token only, so each `parse_` function is a set of edges
  (point, token kind, next point, what the token becomes). `typed` is what the user wrote and
  `input` what arrives after `Cut`. Messages and positions of errors are left out.
- **Session.** The variables are those of `Server` and `Catalog`. `Server`'s `Handle` and
  `Shutdown` are taken only when the executor has returned, so a USE that saves stays in
  `srv = "handle"` meanwhile; SIGPIPE and an interruption end both at once. `Execute` is the
  dispatch over all nine kinds of statements; INSERT, DELETE and UPDATE are one (`modify`),
  because of their effect only the table's new contents are visible here. `session` is a history
  variable: what the statements leave when each is run (`After`) in the order in which they were
  executed - the open database, the rows of its tables, and what each file may hold (`left`):
  the rows its table had when its database was last left, if `save_all` came to it, and else
  what was left there before.
- **Lexer.** Characters are sorted into the classes that `scan_token` tells apart. `from` and
  `to` in a token are history: where in the text it was read. `value * 10 + digit` beyond
  `IntMax` is any int, because the overflow is undefined.
- **TableFile, Answer.** A text is a sequence of characters; a word no loop looks into is one
  of them. The recursive `%d` is a recursive function. `LineMax` stands for
  `sizeof(line_buf)`. The text reaches the disk up to any character. Where the display's search
  has left the text, what is shown is a set: nothing more, or something that is not of the
  answer (`Foreign`).
- **Vector.** `heap` maps blocks to cells, and a cell is raw memory, an object, or one that
  was moved from. Freeing a null pointer is a step on block 0, which is never used. `i` counts
  from 1. The template is taken at an abstract element type.

Definitions whose comment starts with "Mistake:" are faulty variants of the definition
below them. No specification uses them; each is a plausible bug that the property named in
`PROJECT.json` ("mutants") must catch when it replaces the real definition.

## 3. What the runs check

### Passing runs

**`index`** (`MCIndex.cfg`). Keys -1..3, two row ids. Five keys make the bisection take up to
three probes and reach every insertion point, at the front, between entries and at the end.
`SearchBrackets` is the loop invariant of `_find_pos` and its result's meaning; `Sorted` the
array's order; `ImplementsMap` the refinement of `IndexMap`, in which the probes are
stuttering steps; `Terminates` the end of every call.

**`dml`** (`MCDml.cfg`). Four tables: one keyed column with up to three rows, VALUES lists of
up to two, literals 0, 1, 5 (which wraps to 1 in a 2-bit int) and a string; and, with up to two
rows, VALUES lists of one to three and two literals, a table keyed on the first of two columns,
one keyed on the second, and one without a key (`MaxRows`, `MaxValues` and `Literals` are
functions of the table). Three rows are enough for DELETE to remove a first, a middle and a
last row in every combination; one to three values are too few, enough and too many.
`KeysUniqueUntilRekeyed`: INSERT and DELETE keep int keys unique. `IndexKeysExact`: the index
has exactly the rows' keys (0 aside, see below), also between the steps of a DELETE.
`TypeOK` also bounds the unchecked `get_value`. `DoesWhatItSays` joins `DeleteExact` (the
backward loop removes the rows that matched at the start and no other), `UpdateExact`,
`SelectExact` and `FailureChangesNothing`, against a definition of WHERE stated without
`Value::compare`. `StatementsReturn`.

**`catalog`** (`MCCatalog.cfg`). Two databases, two tables, an empty and a full content, every
order of statements, every failure of a system call, crashes and restarts. Two tables are needed
for `save_all` to stop between them, and two databases for USE and DROP DATABASE of another one.
`Aligned` (the three vectors agree), `SelectedIsOpen` (name and pointer agree), `TornIsDamaged`
(a truncated file has a cause). `FilesFollowCatalog`: of all files only those of open tables
change, and such a file disappears only with its table; files of other databases go with their
directory at most, as DROP DATABASE is documented to do (the code's `rmdir` takes no file along).
`TablesLeaveSaved`: a table leaves memory by DROP TABLE, or its rows are in its file, or its own
write failed, or `save_all` could not open its file or one before it, or the process was killed.
The property allows the loss the code has and no other. `SaveReturns`.

**`server`** (`MCServer.cfg`). Two clients, with two statements and one; statements that fill
the server's buffer and are executed, that lose their closing quote there, whose answer
overflows the client's buffer, that are refused, and `exit`; a backlog of two (the code asks
for five: with two, one call is served, one waits and the third is the other client's next);
any process may be killed at any step. `ToldTheTruth`: an executor's answer means executed
exactly once and an error means never, with the exceptions stated there. `CallsReturn`, and
`KeepsPromise`: sockets, buffers and lost peers keep what `Service` says, in which a call waits
in one queue from its arrival to its end, is executed at most once while its caller waits or
is dead, and never after a goodbye.
`CHECK_DEADLOCK FALSE`, because the server may be down and every client gone.

**`session`** (`MCSession.cfg`). Two clients and all kinds of statements, scripted call by call
(`Says`): one client works on two tables in four calls (USE, CREATE TABLE, CREATE or DROP TABLE,
then `exit` or USE of the other database) while the other puts in one statement anywhere: USE,
CREATE and DROP DATABASE, INSERT, SELECT or `exit`. With two tables a save can stop in the middle,
and with two contents it can write the wrong rows. One of the two directories exists at the start
(`Made`) and the other can be made meanwhile, also after a save that failed without it. The
network detail that `server` covers (long, refused and cut messages) is switched off; kills,
interruptions and SIGPIPE are not. `OneSession`: between statements the selected database and the
rows of its tables are what all clients' statements leave, run in the order in which they were
executed. `FilesAsLeft`: between statements and after an orderly end every file holds what those
statements leave in it; where `save_all` did not come to a file, that is what it held before.
`GoodbyeThenSaved`: "goodbye" is sent before anything is saved; once a client has it, or the loop
has been told to end, the server comes to its end, and an end that is not a kill comes with the
files as the session leaves them. `ActsAsServer`: `save_all` inside a handler changes nothing of
what `Server` says, its liveness included. `CHECK_DEADLOCK FALSE`, as for `server`.

**`lexer`** (`MCLexer.cfg`). Every text of up to four pieces (`MaxPieces`): a keyword in two
spellings, another word, two numbers (1 and 11 fit `IntMax` = 15, 90 and what they run together
to does not), a character of each other kind, and one the language does not have. Four pieces
make words and numbers run into each other, and a newline stand inside a literal with tokens
behind it. `NothingLost` (the tokens spell the text, each as long as it
can be, with its true value and position), `RefusesWhatIsWrong` (`tokenize` returns, and has
refused exactly the texts outside the language, at the place where they stop being one).
`CHECK_DEADLOCK FALSE`: the tokens are the end.

**`parser`** (`MCParser.cfg`). Two names, one literal of each type, lists of up to two
(`MaxList`); every sentence of the documented grammar, and each sentence with a token left out,
repeated, or added at the end, with a PRIMARY put in anywhere, and every beginning of one. Two
columns suffice for two PRIMARYs, two values for the comma. `SentencesParse`,
`ReadsWhatItAccepts` (what was read is in the statement, token for token: a WHERE clause is
never read and lost, and no CREATE TABLE has two primary keys), `Returns`. `CHECK_DEADLOCK
FALSE`: a parsed statement is the end.

**`formats`** (`MCFormats.cfg`). One or two columns of either type, up to two rows, and values
that are plain, negative, of the other type, empty, or hold a separator; in one column also a
newline, a carriage return, a colon and a row longer than the buffer (`LineMax` = 9). Two columns are needed for a
value to move into the next one, two rows for a torn row to have an intact one before it.
`RowsShift` (plain values come back under their column's type, the others where strtok puts
them; of a file cut anywhere at most the last row differs, or it is refused),
`SecondTripExact` (one trip loses all that is ever lost). `ColumnsShown` and `CutTellsNoLie`
are about the answer to a SELECT of the same tables, to another statement and to one that failed,
as the client shows it: whole, it shows the whole message of a failure, and of a success every
column's name and type, in order; cut after any character, it shows nothing else than what
the whole answer shows first, unless the search has left the text. `ColumnsShown` asks
for no key, kind or row to be shown or not, because there code and documents disagree (below).
`CHECK_DEADLOCK FALSE`: a table that was read twice is the end.

**`vector`** (`MCVector.cfg`). Two vectors, two values, sizes up to three (`MaxSize`), three
blocks (`MaxBlocks`), a first capacity of 1 instead of 8: three elements then take two
growths, from nothing and from a full block, and two vectors suffice for every copy, move and
assignment. A third block is what `reserve` fills while both vectors have one. `HeapOK` joins
`TypeOK`, `OwnedOnce` (no leak, no double free) and `ElementsOnly`; `EachDestroyedOnce` (no
object is built on another, destroyed twice, or left in a freed block), and `ActsAsLists`, the
refinement of `Lists`, on which every other module relies when it takes a vector for a sequence.

### Fairness

Weak fairness of one action group each, and only where a thread that is inside a call keeps
running: an index operation, a DML handler and `save_all` run on their caller's thread to the
return; `tokenize` and `parse` likewise; in `Server` and `Session` the server thread and every
live client keep running, and in `Session` the server thread also runs `save_all`.
Nothing is assumed of users, of the operator or of kills: nobody has to type, interrupt or
die. Weak fairness is enough: only a crash, a kill or an interruption disables a step of
these groups, and each of those also ends the call that waits for it.

### Runs that find a disagreement

| Run | What is said | What the code does |
|---|---|---|
| `catalog_load` | "Tables are loaded on demand" | nothing loads a table: after USE or a restart it does not exist, and creating it again overwrites its file at the next save |
| `server_stops` | "Runs until an exit command is received or interrupted" | a client that hangs up early ends the server by SIGPIPE, unsaved |
| `parser_prompt` | the README's own `update ... set name = "alice" where ...` | the request ends at its first quote: the name becomes empty and the WHERE is lost, so every row is updated |

Other disagreements met while modelling, without a run of their own:

- UPDATE of the primary key does not look for the new key, so two rows may share one
  (`executor.cpp:520`, against "Check primary key uniqueness" in `executor.cpp:427`, which
  INSERT does); hence `KeysUniqueUntilRekeyed`. The old key stays in the index, so a later
  INSERT of it is refused though no row has it.
- A string in the primary-key column is indexed under 0 (`executor.cpp:416` and `449`): the
  next INSERT of the int 0 is answered "Duplicate primary key" though no row has key 0.
- DROP DATABASE only calls `rmdir`, after saving the open tables into the directory, so it
  fails on every database with a table file and leaves it as it is (`executor.cpp:104`), but the
  open database is closed all the same. The documents say that it deletes the database
  (`req export.md:71-74`, `README.md:92`), and a comment on its twin in `database.cpp:163` "Remove
  all .dat and .idx files first, then the directory". `FilesFollowCatalog` allows either.
- A string comes back from a table file shifted, split or as a number if it is empty, holds a
  separator or stands in an int column, and a row without its end is read without a complaint
  (`table.cpp:158-182`). No property of the code's own words is broken: only tests load a file.
- A newline in a string literal does not count as a line, so errors behind it are reported at
  a wrong position (`lexer.cpp:231`).
- `exit` in one client stops the server for all (`server.cpp:152`); `README.md` shows it as the
  end of the client's session.
- The client would show "Statement: CREATE DATABASE" (`README.md:50-52`), but the server's answer
  has no "kind". The first column is shown under the key `:[name` (`protocol.cpp:320`, against
  `README.md:66`). The message of a success is shown, which the examples there do not have. No
  rows are shown (`client_main.cpp:68-88`, against `req export.md:105` and `168`).
- An answer that ends in `":"` makes the display step over its end, into the memory behind it
  (`client_main.cpp:86`).
- Row ids in the index go stale after a DELETE (`executor.cpp:377`, against `index.hpp:11`).
  No code reads them back.
- `save_all` stops at the first table it cannot open, and `shutdown` ignores that
  (`database.cpp:120`, `executor.cpp:536`, against "save all data" in `executor.hpp:49`). USE
  succeeds without a directory, and then nothing can be saved.
- An answer longer than the client's buffer is returned cut (`client.cpp:77`, against
  `client.hpp:10`).
- Tokens after the end of a statement are ignored and a missing value is read as the empty
  string (`parser.cpp:549`, against the syntax in the repository's `README.md:93` and `104`).
- "Failed to send request" may be reported for a statement that fills the server's buffer and
  was executed before its newline was written (`client.cpp:116`).

## 4. What is proved

The theorems hold for every value of the constants. They use the `ASSUME`s of the modules and
nothing else.

**`IndexProofs`**: any set of integer keys, any set of row ids, with None not among them.

- The inductive invariant is `TypeOK /\ Sorted /\ SearchBrackets`. `Sorted` alone is not
  inductive: what an insertion does to the order depends on where the search left `pos`, and
  where the search goes depends on the order.
- `TypeCorrect` (every probe is inside the array), `AlwaysSorted`, `SearchCorrect`.
- `Refinement`: the array with its binary search implements `IndexMap`. It rests on what
  `InsertAt` and `RemoveAt` do to the map an array stands for (`InsertRefines`,
  `RemoveRefines`). With it, `Dml` may use the map where the code uses the array.

**`CatalogProofs`**: any databases, tables and contents; the empty content is a content, "no
file" and "truncated" are none and differ, and Null is neither a name nor a Database.

- The inductive invariant adds one conjunct to the invariants of the run: `Writing`, which
  says that while a file is being written the loop variable names a table. Without it `TypeOK`
  could not bound `pos + 1`.
- `TypeCorrect`, `VectorsAligned`, `NoNullDatabase`, `TornFilesExplained`.
- `OnlyOpenTablesWritten` (`FilesFollowCatalog`): per action, the paths whose file changes.
- `NothingLeavesUnsaved` (`TablesLeaveSaved`): needs a second invariant, `SavedSoFar`. The
  tables before the loop variable are in their files or had a failed write, and when `save_all`
  has returned, either it came to the end or it stopped at the table it could not open. The
  first is kept because distinct tables have distinct files (`OtherPaths`, which rests on
  `Aligned`).

**`DmlProofs`**: any schemas, literals and widths of int and long.

- `KeysUniqueUntilRekeyed` is not inductive: INSERT looks for the key in the index and not in
  the rows, so it needs `IndexKeysExact`, and that needs the uniqueness to survive a DELETE
  (the key that leaves the index must not be another row's). INSERT also checks first and
  stores later: `FoundOK` says that what `CheckKey` found is still true when the row is
  stored.
- `TypeCorrect`, `KeysStayUnique`, `IndexStaysExact`.
- `StatementsExact` (`DoesWhatItSays`) needs what each loop has done so far: `DeleteSoFar`,
  `UpdateSoFar`, `SelectSoFar`, and `Untouched` for a statement that fails or never writes.
  The backward loop of DELETE is the hard one. `Keeps` says that the rows left are the rows to
  keep, in their order, and that those up to `i` have not moved; the proof gives the new
  positions after each removal. All three say which rows in which order, not only how many.

**`ServerProofs`**: any clients, statements, backlog and number of calls.

- The inductive invariant speaks of one connection or one client at a time. `SocketOK`: the
  socket of a connection that was opened, hung up exactly when its call is over. `ServedOK`:
  how far the server is with it. `ExecutedOK`: the statement ran if and only if the answer
  says so. `PastOK`: a REPL goes on only after an answer, or when there will be none.
  `ClientOK`: where a client is in its call and what the last one returned. `LoopOK`: nobody
  waits twice, and the loop ends only after `exit`.
- `TypeCorrect`, and `AnswersAreTrue` (`ToldTheTruth`), which is not inductive: what a client
  was told is the end of a chain from the executor over the socket to the call, and the
  invariant holds the links.
- `Refinement` (`KeepsPromise`): every write, read, hang-up and kill is a step
  of `Service` or a stutter.

**`VectorProofs`**: any number of vectors and blocks, any sizes, first
capacity and elements.

- The inductive invariant: `Typed`; `Owned` (each block has one owner, and the block that
  `reserve` is filling none); `Resting` (a vector no call works on has its elements and no
  other objects); `Called` (what operation may be where); `Working`, which says for each loop
  which cells of which block hold objects before iteration `i`. `HeapOK` alone does not say
  that and is not inductive.
- `HeapStaysOK`. `DestroyedOnceOnly` (`EachDestroyedOnce`): every write of a cell builds on raw
  memory or ends an object, and a block is freed when all its cells are raw.
- `Refinement` (`ActsAsLists`): needs a second invariant, `Past`, on the history `before`: the
  vectors no call works on are the lists they were, and the one it works on is the list it
  was up to what the loop has done. Every iteration is a stutter, and the last one takes the
  operation's effect.

**`LexerProofs`**: any texts, alphabet, keywords and width of int. The characters are in the
classes that the code distinguishes, and no class is also the name of a kind of token.

- `NothingLost` is about finished tokens, so it says nothing of the one being read. The
  inductive invariant adds `Scanning` (the characters since `start` are of the class the scan
  function accepts, and `value` is the number they spell while that fits), `Placed` (`line`
  and `col` are the true place of `pos`, `start_col` that of the token), `Accepted`
  (the text so far is one of the language; an odd number of quotes has been read just while a
  string is open), `Covered` (`NothingLost`, and only blanks between the last token and the
  one being read) and `Ended` (where "eof" and "invalid" may stand).
- `Number` is a recursive function. That it has the value its recursion says, for every
  length, is shown by a least counterexample (`SumsExist`, `NumberIsSum`), and with it that a
  digit more multiplies by ten and adds (`NumberFacts`).
- `TypeCorrect` (no read behind the terminating zero), `TokensSpellText` (`NothingLost`) and
  `RefusedRightly`, the safety half of `RefusesWhatIsWrong`: if `tokenize` returns, it has
  refused exactly what it should, where it should.

**`SessionProofs`**: any clients, statements, databases, tables and calls; the assumptions are
those of `Server` and `Catalog`, that a statement is parsed to a command, and that users type
statements or `exit`.

- `SessionProofs` instantiates `ServerProofs` and `CatalogProofs` on the variables of `Session`.
  `ServerStep` and `CatalogStep` show that each step is one of `Server` or none, and one of
  `Catalog` or none. So both inductive invariants hold of the composition without being proved
  again (`ServerInvariance`, `CatalogInvariance`), and so does every step property of the two.
- What neither component can say is added. `Coupled`: the process is down for both at once, and
  `save_all` runs for the statement of the connection being served, with that statement's
  operands, or for the shutdown. `Shared`: the executor has open the database and the rows the
  session says, also while it saves for a statement that takes effect later. `Kept`: every file
  is as the session left it, but for those a running save has come to (`Reached`).
- For each kind of statement a lemma says that what it makes of the vectors and the files is
  what `After` makes of the session (`CreateTableRows`, `DropTableRows`, `ModifyRows`,
  `ExecuteFollows`): `get_table` finds a table by name in vectors that DROP TABLE shifts, while
  the session knows no positions (`RowsFacts`). `SavedLeft` is where a save ends: with
  `SavedSoFar` of `CatalogProofs`, what the files hold then is what leaving the database says
  (`Left`), also when the save stopped in the middle.
- `SharedSession` (`OneSession`) and `OrderlyEndSaves` (`FilesAsLeft`, the safety part of
  `GoodbyeThenSaved`).
- `ServesAsServer`, the safety half of `ActsAsServer`; `AnswersStayTrue` (`ToldTheTruth`) and
  `PromiseKept`: the process with its executor and its files implements `Service`. The runs
  check `KeepsPromise` of `Server` alone.
- `ExecutesAsCatalog` and `SessionFiles`: the same for `Catalog`, although the data root is not
  empty at the start and the only callers are clients.

**`ParserProofs`**: any names, literals and lengths of lists, and any sequence of tokens a
user may type. The assumptions: `*` is not an identifier (`NamesAssumption`), `MaxList` is a
number, and what is typed for a sentence is made of tokens (`EditsAssumption`).

- `TypesStay` (`TypeOK`): `_pos` never passes the end-of-file token, so what `peek` and
  `advance` read without a check is there.
- `AcceptedIsRead` (`ReadsWhatItAccepts`): the tokens read when a statement is accepted are
  exactly the statement's text. The invariant is `Heard`: for each point of the grammar, which
  text has been read there and which statement has been built from it. `ReadsWhatItAccepts`
  alone says nothing before the last step. One lemma per `parse_` function shows that its edges
  lead from `Heard` to `Heard`: a list of columns or values is its text up to the next comma, a
  WHERE clause that has begun is in the statement but for its value. A value that was not there
  (`NoValue`) is a value without a text, and PRIMARY replaces the last column built.
- `NoSentenceRefused` (`SentencesParse`): a sentence of the grammar is accepted as the statement
  it is the text of. `Heard` looks back and says nothing of the next token, so a second
  invariant, `Ahead`, looks forward: for each point, what a sentence may still have there. It is
  the grammar read from its end (`RestWhereValue` is a literal and an ending, `RestWhereOp` an
  operator and a `RestWhereValue`, and so on); off the list of columns it depends on the point
  alone, on it also on the columns built, since no second PRIMARY may be ahead. `Proceeds`
  says that a token is there, that an edge takes it, and that every edge that takes it leads to
  a point where the rest is ahead; one lemma per `parse_` function proves it. `NoValue` and `Fail` are
  then never enabled, and `Skip` only where the optional part is not there. That `Render` of each
  statement is ahead at the start needs the lists from the front, while `Heard` has them from
  the back: `InFront` shows that the two ways to write a list agree.
- A list's text is `Listed`, over the community modules' `FlattenSeq`, a recursive function.
  `FlattenAppend` gives what one more part does to it, by a least counterexample.
- `RenderTokens` and `CutTokens`: every sentence, also when `json_get_string` has cut it, is a
  sequence of tokens, so the theorems cover every input of the runs.

The facts about `InsertAt`, `RemoveAt` and the least element of a set stand at the head of the
modules that cite them.

Only model-checked: liveness (`Terminates`, `StatementsReturn`, `SaveReturns`, `CallsReturn`,
`Returns`, `RefusesWhatIsWrong`, `GoodbyeThenSaved`), because fairness is out of the prover's
reach; and everything about `TableFile` and `Answer`. The library's induction theorems
cannot be instantiated by the installed provers. One recursive function over the naturals
yields to a least counterexample, as `Number` and `FlattenSeq` do; the nested ones of `TableFile`
and `Answer`, over texts that other functions compute, are left to TLC.

## 5. What is not modelled, and why

- **Registry** (`database.cpp` 126-183). The executor calls `create_database` only, which is
  `Catalog`'s `CreateDatabase`. The static `Database` behind `use_database` keeps the first name
  and the tables it was given, and is reached by tests only. Planned, small.
- **Parser C API** (`parser_c.cpp`): conversion to C arrays, called by tests only.
- **`serialize_response` and `serialize_where`** (`protocol.cpp` 82-238): nothing calls them.
- **`String`**: an immutable value everywhere in the models. Its manual memory management is
  that of `Vector` without growth.
- **Loading in `Catalog`.** Nothing in the program loads a file, so `TableFile` stands beside
  `Catalog` and not under it; there a written file holds the rows.
- **DML in `Session`.** What rows a statement changes is in `Dml`; in `Session` the contents of a
  table are opaque, and a DML statement is the function it is on them.
- **Partial `send`s**: the code does not tell them apart from the failures modelled.

## 6. Plan

Done: the core (`Index`, `Dml`, `Catalog`), the network, the shared session, lexer and parser,
the file and answer formats, the containers, and the proofs of section 4. Left: `Registry`, the
test-only operations of `database.cpp`.

The disagreement runs stay few: one for each that a reader should see happen. The others are
listed in section 3.
