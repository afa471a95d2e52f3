------------------------------- MODULE Helpers --------------------------------
(***************************************************************************)
(* What every part of the daemon uses: watches on D-Bus, and files.        *)
(*                                                                         *)
(* gdbus/watch.c: the watches of names and signals that tell the daemon's   *)
(* components that a client has left the bus.  The callbacks of a signal    *)
(* are called one after the other, and each may add and remove watches.      *)
(***************************************************************************)
EXTENDS Naturals, Sequences, SequencesExt

CONSTANTS Unique,     \* the filters of unique names,
          Names,      \* of other names,
          Signals,    \* and of signals,
          Sender,     \* which name sends a signal that is watched by that name
          Ids,        \* the callbacks that may exist at a time; a freed one's memory is reused
          Environment \* which of these happen as well: the callback of an answer removes its
                      \* own watch ("self"), that of a signal does and ends it too ("both"); a
                      \* signal matches several filters ("overlap")

VARIABLE w

Filters == Unique \cup Names \cup Signals

\* Such a filter has a watch of that name, without functions: its name_watch.
Named == DOMAIN Sender
Callbacks == Ids \cup Named

\* listeners: the list of filters; of each: callbacks, and those that are processed already; on: the
\* filter of a callback; both: it has both functions; data: GetNameOwner is under way
\* for it; filter: message_filter is installed; cur: the filter whose callbacks are
\* called and the one that is being called, because of a signal or an answer;
\* due: the callbacks that are to be called for the signal (history);
\* fault: something was called twice or used after it was freed.
Nothing == [filter |-> "none", id |-> "none", how |-> "none"]
WatchInit == w = [listeners |-> <<>>, callbacks |-> [f \in Filters |-> <<>>],
                  processed |-> [f \in Filters |-> <<>>], on |-> [i \in Callbacks |-> "none"],
                  both |-> {}, data |-> {}, filter |-> FALSE, cur |-> Nothing, due |-> {},
                  fault |-> FALSE]

Locked(x, f) == x.cur.filter = f /\ x.cur.how = "signal"
Runs(x) == x.cur.id \in Ids      \* inside a callback,
AtRest(x) == x.cur = Nothing     \* or called by the main loop

\* A callback leaves its filter.
Removed(x, i) ==
  LET f == x.on[i]
  IN [x EXCEPT !.callbacks[f] = SelectSeq(@, LAMBDA o : o # i),
               !.processed[f] = SelectSeq(@, LAMBDA o : o # i),
               !.on[i] = "none", !.both = @ \ {i}, !.data = @ \ {i}, !.due = @ \ {i}]
Unused(x, f) == x.callbacks[f] = <<>> /\ ~Locked(x, f)

\* The filter leaves the list, and message_filter the connection with the last one.
\* Where only the filter of a signal and its name_watch are left this is asked twice, and the
\* library, which has nothing to take away, prints a warning.
RemoveFilter(x) == IF x.listeners # <<>> THEN x ELSE [x EXCEPT !.filter = FALSE]
Delisted(x, f) == [x EXCEPT !.listeners = SelectSeq(@, LAMBDA o : o # f)]

\* filter_data_free removes the filter's name_watch, and may free the name's filter by that.
filter_data_free(x, f) ==
  LET y == Delisted(x, f)
      z == Removed(y, f)
      n == Sender[f]
  IN RemoveFilter(IF f \notin Named THEN y
                  ELSE IF Unused(z, n) THEN RemoveFilter(Delisted(z, n)) ELSE z)

filter_data_remove_callback(x, i) ==
  LET y == Removed(x, i)
  IN IF Unused(y, x.on[i]) THEN filter_data_free(y, x.on[i]) ELSE y

-----------------------------------------------------------------------------
(* Components, from the main loop or in a callback.                        *)

\* filter_data_get and filter_data_add_callback
Added(x, f, i) ==
  LET y == [x EXCEPT !.listeners = IF Contains(@, f) THEN @ ELSE Append(@, f), !.filter = TRUE,
                     !.on[i] = f]
  IN IF Locked(x, f) THEN [y EXCEPT !.processed[f] = Append(@, i)]
     ELSE [y EXCEPT !.callbacks[f] = Append(@, i)]

\* A watch of a name that wants to know of its owner too asks for it; one of a signal of
\* a name watches that name.
add_watch(f, i, both) ==
  /\ AtRest(w) \/ Runs(w)
  /\ w.on[i] = "none" /\ (both => f \notin Signals)
  /\ LET x == Added(w, f, i)
         y == IF both THEN [x EXCEPT !.both = @ \cup {i}, !.data = @ \cup {i}] ELSE x
     IN w' = IF f \in Named /\ w.on[f] = "none" THEN Added(y, Sender[f], f) ELSE y

g_dbus_remove_watch(i) ==
  /\ AtRest(w) \/ Runs(w)
  /\ w.on[i] # "none"
  /\ LET own == i = w.cur.id /\ w.cur.how = "answer"
         x == filter_data_remove_callback(w, i)
     IN /\ own => "self" \in Environment
        /\ w' = [x EXCEPT !.cur.how = IF own THEN "freed" ELSE @]

-----------------------------------------------------------------------------
(* The bus.                                                                *)

\* The filters that a signal matches: filter_data_find takes the first in the list.
Matching == {{f} : f \in Filters} \cup (IF "overlap" \in Environment THEN SUBSET Filters ELSE {})
message_filter(matching) ==
  LET found == SelectSeq(w.listeners, LAMBDA f : f \in matching)
  IN /\ AtRest(w) /\ w.filter /\ found # <<>>
     /\ w' = [w EXCEPT !.cur = [filter |-> Head(found), id |-> "none", how |-> "signal"],
                       !.due = UNION {ToSet(w.callbacks[f]) : f \in matching}]

\* service_filter and signal_filter: the first callback is called.
Call ==
  LET f == w.cur.filter
      i == Head(w.callbacks[f])
  IN /\ w.cur.how = "signal" /\ w.cur.id = "none" /\ w.callbacks[f] # <<>>
     /\ w' = [w EXCEPT !.cur.id = i, !.due = @ \ {i}, !.fault = @ \/ i \notin w.due]

\* The callback returns.  A watch of a unique name with one function is used up; a signal
\* function says whether it wants to be called again.
Return(again) ==
  LET f == w.cur.filter
      i == w.cur.id
      x == [w EXCEPT !.cur.id = "none"]
      there == Contains(w.callbacks[f], i)
  IN /\ w.cur.how = "signal" /\ w.cur.id # "none"
     /\ ~again => f \in Signals /\ (~there => "both" \in Environment)
     /\ w' = CASE ~there -> [x EXCEPT !.fault = @ \/ ~again]
               [] there /\ (~again \/ (f \in Unique /\ i \notin w.both)) ->
                    filter_data_remove_callback(x, i)
               [] OTHER -> [x EXCEPT !.callbacks[f] = Tail(@), !.processed[f] = Append(@, i)]

\* message_filter ends, and the filter with it if nothing is watched any more.
Processed ==
  LET f == w.cur.filter
      x == [w EXCEPT !.cur = Nothing, !.callbacks[f] = w.processed[f], !.processed[f] = <<>>,
                     !.fault = @ \/ ~Contains(w.listeners, f)]
      y == IF w.processed[f] # <<>> THEN x ELSE filter_data_free(x, f)
  IN /\ w.cur.how = "signal" /\ w.cur.id = "none" /\ w.callbacks[f] = <<>>
     /\ w' = y

\* The answer to GetNameOwner, or the owner was known.
service_reply(i, found) ==
  /\ AtRest(w) /\ i \in w.data
  /\ w' = IF found THEN [w EXCEPT !.cur = [filter |-> w.on[i], id |-> i, how |-> "answer"]]
          ELSE [w EXCEPT !.data = @ \ {i}]

update_service ==
  /\ w.cur.how \in {"answer", "freed"}
  /\ w' = [w EXCEPT !.cur = Nothing, !.data = @ \ {w.cur.id}, !.fault = @ \/ w.cur.how = "freed"]

WatchNext == \/ \E matching \in Matching : message_filter(matching)
             \/ \E f \in Filters, i \in Ids, both \in BOOLEAN : add_watch(f, i, both)
             \/ \E i \in Ids : g_dbus_remove_watch(i) \/ \E found \in BOOLEAN : service_reply(i, found)
             \/ Call \/ (\E again \in BOOLEAN : Return(again)) \/ Processed \/ update_service

WatchSpec == WatchInit /\ [][WatchNext]_w

-----------------------------------------------------------------------------

\* Every callback that was there when a signal came, and was not removed by another one
\* before its turn, is called for it, once; none that was added meanwhile is.
CalledOnce == (w.cur.how # "signal" => w.due = {}) /\ ~w.fault

\* Every watch is in one list of its filter, once, so that it can be found and removed;
\* a filter is there exactly as long as it has a watch or is being used, its name_watch as
\* long as the filter, and the daemon gets messages exactly as long as there is a filter.
ListsWhole ==
  /\ \A i \in Callbacks, f \in Filters :
       Len(SelectSeq(w.callbacks[f] \o w.processed[f], LAMBDA o : o = i)) = IF w.on[i] = f THEN 1 ELSE 0
  /\ \A f \in Named : w.on[f] # "none" <=> Contains(w.listeners, f)
  /\ \A f \in Filters : /\ Contains(w.listeners, f) <=> w.callbacks[f] # <<>> \/ Locked(w, f)
                        /\ w.processed[f] # <<>> => Locked(w, f)
  /\ w.filter <=> w.listeners # <<>>

-----------------------------------------------------------------------------
(***************************************************************************)
(* src/textfile.c: the files that keep what must survive the daemon, one    *)
(* line for a key, changed in place by the daemon and by tools that lock     *)
(* the file meanwhile.  storage.c names the files and formats the values.     *)
(***************************************************************************)

CONSTANTS Processes,
          Keys, Values,
          Shorter     \* keys that begin another one: <<key, the longer one>>

\* Environment, in this part: which of these happen as well: a process crashes ("crash") or
\* the disk is "full" while it writes; a key that is looked for begins
\* another one ("prefix"); a function that is called for a line "writes" the same file

VARIABLE text

\* file: the lines; exclusive, shared: who holds the flock; proc: what a process does, with
\* which key and value ("none": to delete it), and the lines that it has to write again;
\* stored: what the file is to hold (history); wrong: a process has read another value.
NoOne == "none"
Idle == [pc |-> "idle", key |-> "none", value |-> "none", rest |-> <<>>]
FileInit == text = [file |-> <<>>, exclusive |-> NoOne, shared |-> {}, proc |-> [p \in Processes |-> Idle],
                    stored |-> [k \in Keys |-> "none"], wrong |-> FALSE]

\* The first line is taken when its key begins with the one that is looked for.
find_key(file, key) ==
  {i \in DOMAIN file : \/ file[i].key = key
                       \/ i = 1 /\ <<key, file[i].key>> \in Shorter}
Line(file, key) == CHOOSE i \in find_key(file, key) : \A j \in find_key(file, key) : i <= j

-----------------------------------------------------------------------------
(* write_key                                                               *)

\* Where a function that is called for a line "writes" too, it waits for its own lock for
\* ever, since flock knows files that are open, not processes.
Starts(p, key, value) ==
  /\ text.proc[p].pc \in {"idle"} \cup (IF "writes" \in Environment THEN {"called"} ELSE {})
  /\ (\E q \in Shorter : q[1] = key) => "prefix" \in Environment
  /\ text' = [text EXCEPT !.proc[p] = [Idle EXCEPT !.pc = "waits", !.key = key, !.value = value]]

LockExclusive(p) ==
  /\ text.proc[p].pc = "waits" /\ text.exclusive = NoOne /\ text.shared = {}
  /\ text' = [text EXCEPT !.exclusive = p, !.proc[p].pc = "locked"]

\* What follows the line of the key is kept in memory.  Mutant: it is not.
ftruncate_all(p) ==
  LET q == text.proc[p]
      found == find_key(text.file, q.key)
      i == Line(text.file, q.key)
  IN /\ q.pc = "locked"
     /\ text' = CASE found = {} -> [text EXCEPT !.proc[p].pc = IF q.value = "none" THEN "unlock" ELSE "value"]
                  [] found # {} /\ text.file[i].value = q.value -> [text EXCEPT !.proc[p].pc = "unlock"]
                  [] OTHER -> [text EXCEPT !.file = SubSeq(@, 1, i - 1),
                                           !.proc[p].pc = IF q.value = "none" THEN "rest" ELSE "value"]

\* What follows the line of the key is kept in memory.
ftruncate(p) ==
  LET q == text.proc[p]
      found == find_key(text.file, q.key)
      i == Line(text.file, q.key)
  IN /\ q.pc = "locked"
     /\ text' = CASE found = {} -> [text EXCEPT !.proc[p].pc = IF q.value = "none" THEN "unlock" ELSE "value"]
                  [] found # {} /\ text.file[i].value = q.value -> [text EXCEPT !.proc[p].pc = "unlock"]
                  [] OTHER -> [text EXCEPT !.file = SubSeq(@, 1, i - 1),
                                           !.proc[p].rest = SubSeq(text.file, i + 1, Len(text.file)),
                                           !.proc[p].pc = IF q.value = "none" THEN "rest" ELSE "value"]

\* Neither write of write_key is tried again if it fails or is short.
write_key_value(p, full) ==
  LET q == text.proc[p]
  IN /\ q.pc = "value" /\ (full => "full" \in Environment)
     /\ text' = [text EXCEPT !.file = IF full THEN @ ELSE Append(@, [key |-> q.key, value |-> q.value]),
                             !.proc[p].pc = "rest"]

WriteRest(p, full) ==
  LET q == text.proc[p]
  IN /\ q.pc = "rest" /\ (full => "full" \in Environment /\ q.rest # <<>>)
     /\ text' = [text EXCEPT !.file = IF full THEN @ ELSE @ \o q.rest, !.proc[p].pc = "unlock"]

\* What the file holds for the key.
Value(file, key) == IF find_key(file, key) = {} THEN "none" ELSE file[Line(file, key)].value

\* At the end; the kernel does the same for a process that crashes, and the file stays
\* as it is: what became of the key itself is then not asked.
Unlock(p) ==
  LET q == text.proc[p]
      unlocked == [text EXCEPT !.proc[p] = Idle, !.shared = @ \ {p}]
  IN /\ q.pc # "idle"
     /\ q.pc # "unlock" => "crash" \in Environment
     /\ text' = IF text.exclusive # p THEN unlocked
                ELSE [unlocked EXCEPT !.exclusive = NoOne,
                        !.stored[q.key] = IF q.pc = "unlock" THEN q.value ELSE Value(text.file, q.key)]

-----------------------------------------------------------------------------
(* read_key and textfile_foreach                                           *)

\* Also by a function that is called for a line.
read_key(p, key) ==
  /\ text.proc[p].pc \in {"idle", "called"} /\ text.exclusive = NoOne
  /\ (\E q \in Shorter : q[1] = key) => "prefix" \in Environment
  /\ text' = [text EXCEPT !.wrong = @ \/ text.stored[key] # Value(text.file, key)]

\* The functions are called while the file is locked.
textfile_foreach(p) ==
  /\ text.proc[p].pc = "idle" /\ text.exclusive = NoOne /\ text.file # <<>>
  /\ text' = [text EXCEPT !.shared = @ \cup {p}, !.proc[p] = [Idle EXCEPT !.pc = "called", !.rest = text.file]]

\* The next line is that of the file as it is now.
NextLine(p) ==
  LET q == text.proc[p]
      i == Len(text.file) - Len(q.rest) + 1
  IN /\ q.pc = "called"
     /\ text' = IF i <= Len(text.file)
                THEN [text EXCEPT !.proc[p].rest = Tail(@), !.wrong = @ \/ text.stored[text.file[i].key] # text.file[i].value]
                ELSE [text EXCEPT !.shared = @ \ {p}, !.proc[p] = Idle]

-----------------------------------------------------------------------------

FileNext == \E p \in Processes :
              \/ \E k \in Keys : read_key(p, k) \/ \E v \in Values \cup {"none"} : Starts(p, k, v)
              \/ LockExclusive(p) \/ ftruncate(p) \/ Unlock(p)
              \/ textfile_foreach(p) \/ NextLine(p)
              \/ \E full \in BOOLEAN : write_key_value(p, full) \/ WriteRest(p, full)

FileSpec == FileInit /\ [][FileNext]_text

-----------------------------------------------------------------------------

\* Whenever no process changes the file, it holds the last value that was put for each
\* key, in one line, and nothing else, and no process reads or is called for anything
\* but that.
Stored == /\ text.exclusive = NoOne =>
               /\ \A i, j \in DOMAIN text.file : text.file[i].key = text.file[j].key => i = j
               /\ \A k \in Keys : text.stored[k] = "none" <=> k \notin {text.file[i].key : i \in DOMAIN text.file}
               /\ \A i \in DOMAIN text.file : text.stored[text.file[i].key] = text.file[i].value
          /\ ~text.wrong
===============================================================================
