----------------------------- MODULE FileTools -----------------------------
(***************************************************************************)
(* The file server's tools on one path (mcp-files).  Every request is      *)
(* served by a goroutine of its own, and nothing keeps two of them from    *)
(* the same file: what one looks up, another may change before it is used, *)
(* a file that is being written is seen empty, and one that is read in     *)
(* parts may be written between two of them.  Consent is the subject of    *)
(* ToolCalls.                                                              *)
(***************************************************************************)
EXTENDS Text, Integers, FiniteSets

CONSTANTS
  Requests,     \* requests to the server
  Texts,        \* what is written to files
  Nobody,       \* no text, no request, no call
  MaxReadBytes  \* the largest file that is read

ASSUME FileAssumption ==
  /\ Texts \subseteq ValidTexts(MaxText) \ {<<>>}
  /\ Nobody \notin Requests /\ Nobody \notin Seq(Byte)
  /\ MaxReadBytes \in Nat

VARIABLES
  disk,      \* the file, Nobody if there is none
  call,      \* the arguments of each request
  step,      \* where its goroutine is
  bytes,     \* what it has read of the file so far
  answer,    \* what it returned
  replaced,  \* auxiliary: what was there when it opened the file to write it
  writer,    \* auxiliary: whose text the file holds, Nobody while it is written
  met        \* auxiliary: requests that found the file, and then another wrote it

fileToolVars == <<disk, call, step, bytes, answer, replaced, writer, met>>

\* The limit of a read may be 0 for a fraction, and negative for a number that no int
\* holds.
FileCalls ==
  [op : {"create"}, text : Texts]
    \union [op : {"update"}, text : Texts, expected : Texts \union {Nobody}]
    \union [op : {"read"}, limit : -1 .. MaxReadBytes]
    \union [op : {"search"}, query : ValidTexts(1) \ {<<>>}]
    \union [op : {"list", "move"}]

ASSUME CallAssumption == Nobody \notin FileCalls

StepSet  == {"none", "approve", "look", "open", "write", "read", "done"}
NoAnswer == [ok |-> FALSE, text |-> <<>>]

Exists     == disk # Nobody
Writes(r)  == call[r] # Nobody /\ call[r].op \in {"create", "update"}
Guarded(r) == call[r].op = "create" \/ call[r].expected # Nobody
Wanted(r)  == IF call[r].op = "create" THEN Nobody ELSE call[r].expected

FileInit ==
  /\ disk \in Texts \union {Nobody}
  /\ call = [r \in Requests |-> Nobody]
  /\ step = [r \in Requests |-> "none"]
  /\ bytes = [r \in Requests |-> <<>>]
  /\ answer = [r \in Requests |-> NoAnswer]
  /\ replaced = [r \in Requests |-> Nobody]
  /\ writer = Nobody
  /\ met = {}

Moves(r, from, to) == step[r] = from /\ step' = [step EXCEPT ![r] = to]

Keeps(r, from, to) ==
  Moves(r, from, to) /\ UNCHANGED <<disk, call, bytes, answer, replaced, writer, met>>

Answers(r, ok, text) == answer' = [answer EXCEPT ![r] = [ok |-> ok, text |-> text]]

\* A request that has changed nothing comes to its end.
Returns(r, from, ok, text) ==
  /\ Moves(r, from, "done") /\ Answers(r, ok, text)
  /\ UNCHANGED <<disk, call, bytes, replaced, writer, met>>

Fails(r, from) == Returns(r, from, FALSE, <<>>)

\* FilesTools.Call: which tool is asked for.
CallFileTool(r) ==
  \E c \in FileCalls :
    /\ Moves(r, "none", IF c.op \in {"create", "update"} THEN "approve" ELSE "look")
    /\ call' = [call EXCEPT ![r] = c]
    /\ UNCHANGED <<disk, bytes, answer, replaced, writer, met>>

\* validateApproval.
Approves(r) ==
  \/ Fails(r, "approve")
  \/ Keeps(r, "approve", IF Guarded(r) THEN "look" ELSE "open")

\* resolve: the path leads out of the sandbox.
Escapes(r) == Fails(r, "look")

\* List, and a tool that is disabled.
Lists(r) ==
  \/ call[r].op = "list" /\ Returns(r, "look", TRUE, <<>>)
  \/ call[r].op = "move" /\ Fails(r, "look")

(***************************************************************************)
(* Read and Search                                                         *)
(***************************************************************************)
\* Stat, for a read or for a file that the walk of a search comes to.
StatSize(r) ==
  /\ call[r].op \in {"read", "search"}
  /\ IF Exists /\ Len(disk) <= MaxReadBytes
       THEN Keeps(r, "look", "read")
       ELSE Returns(r, "look", call[r].op = "search", <<>>)

\* os.ReadFile: the file is read from where the last read came to, until there is no
\* more.  Files are never removed, but it may have changed since Stat, and since the
\* last read.
ReadPart(r) ==
  \/ Returns(r, "read", call[r].op = "search", <<>>)
  \/ /\ step[r] = "read"
     /\ \E n \in Len(bytes[r]) + 1 .. Len(disk) :
          bytes' = [bytes EXCEPT ![r] = @ \o SubSeq(disk, Len(@) + 1, n)]
     /\ UNCHANGED <<disk, call, step, answer, replaced, writer, met>>

AtEnd(r) == step[r] = "read" /\ Len(disk) <= Len(bytes[r])

\* Mutant: what was read is cut as it is.
ReadAsItIs(r) ==
  /\ AtEnd(r) /\ call[r].op = "read"
  /\ IF Valid(bytes[r]) /\ call[r].limit >= 0
       THEN Returns(r, "read", TRUE, Take(bytes[r], Least(call[r].limit, Len(bytes[r]))))
       ELSE Fails(r, "read")

\* A negative limit makes it panic.
Read(r) ==
  /\ AtEnd(r) /\ call[r].op = "read"
  /\ IF Valid(bytes[r]) /\ call[r].limit >= 0
       THEN Returns(r, "read", TRUE, ReadCut(bytes[r], call[r].limit))
       ELSE Fails(r, "read")

Search(r) ==
  /\ AtEnd(r) /\ call[r].op = "search"
  /\ Returns(r, "read", TRUE,
       IF Valid(bytes[r]) /\ ContainsText(bytes[r], call[r].query) THEN FirstSnippet(bytes[r], call[r].query) ELSE <<>>)

(***************************************************************************)
(* Create and Update                                                       *)
(***************************************************************************)
\* Create: Stat.
FreePath(r) ==
  /\ call[r].op = "create"
  /\ IF Exists THEN Fails(r, "look") ELSE Keeps(r, "look", "open")

\* Update: what is there is read, and its hash compared.
OpenGuard(r) ==
  /\ call[r].op = "update"
  /\ IF Exists THEN Keeps(r, "look", "read") ELSE Fails(r, "look")

\* Mutant: the text that is there is not compared with the expected one.
AnyText(r) == AtEnd(r) /\ call[r].op = "update" /\ Keeps(r, "read", "open")

SameHash(r) ==
  /\ AtEnd(r) /\ call[r].op = "update"
  /\ IF bytes[r] = call[r].expected THEN Keeps(r, "read", "open") ELSE Fails(r, "read")

Looked     == {r \in Requests : step[r] \in {"read", "open", "write"}}
Crosses(r) == met' = met \union (Looked \ {r})

\* WriteFile: the file is created, or truncated, and then written.
OpenFile(r) ==
  \/ Fails(r, "open")
  \/ /\ Moves(r, "open", "write")
     /\ replaced' = [replaced EXCEPT ![r] = disk]
     /\ disk' = <<>>
     /\ writer' = Nobody
     /\ Crosses(r)
     /\ UNCHANGED <<call, bytes, answer>>

\* What another has written since stays where it is longer.
Overwritten(text) == text \o SubSeq(disk, Len(text) + 1, Len(disk))

\* A write that fails may have come half way.
WriteText(r) ==
  /\ Moves(r, "write", "done")
  /\ \/ disk' = Overwritten(call[r].text) /\ writer' = r /\ Answers(r, TRUE, call[r].text)
     \/ /\ \E n \in 0 .. Len(call[r].text) : disk' = Overwritten(Take(call[r].text, n))
        /\ writer' = Nobody /\ Answers(r, FALSE, <<>>)
  /\ Crosses(r)
  /\ UNCHANGED <<call, bytes, replaced>>

FileNext ==
  \E r \in Requests :
    \/ CallFileTool(r) \/ Approves(r)
    \/ step[r] = "look" /\ (Escapes(r) \/ Lists(r) \/ StatSize(r) \/ FreePath(r) \/ OpenGuard(r))
    \/ ReadPart(r) \/ Read(r) \/ Search(r) \/ SameHash(r)
    \/ OpenFile(r) \/ WriteText(r)

FileSpec == FileInit /\ [][FileNext]_fileToolVars

(***************************************************************************)
(* Properties                                                              *)
(***************************************************************************)
FileTypeOK ==
  /\ disk \in Seq(Byte) \union {Nobody}
  /\ call \in [Requests -> FileCalls \union {Nobody}]
  /\ step \in [Requests -> StepSet]
  /\ bytes \in [Requests -> Seq(Byte)]
  /\ answer \in [Requests -> [ok : BOOLEAN, text : Seq(Byte)]]
  /\ replaced \in [Requests -> Seq(Byte) \union {Nobody}]
  /\ writer \in Requests \union {Nobody}
  /\ met \subseteq Requests

\* A write that no other crossed between its look and its write has replaced what
\* it was guarded by, nothing for a create and the expected text for an update,
\* and its text is what the file holds until the next one: a text is lost or
\* mixed with another only by writes that cross.
UncrossedWritesAreTrue ==
  /\ \A r \in Requests :
       Writes(r) /\ answer[r].ok /\ Guarded(r) /\ r \notin met => replaced[r] = Wanted(r)
  /\ writer # Nobody /\ writer \notin met => disk = call[writer].text

\* Each byte stands where it does in some text.
Mixture(s) == \A i \in DOMAIN s : \E text \in Texts : i <= Len(text) /\ text[i] = s[i]

\* Whatever is written meanwhile, a read returns whole characters within its limit,
\* each byte where some text has it; and the beginning of one text unless a write
\* came between its parts, or writes have crossed.  What a search shows holds what was
\* searched for.
ReadsAreWhole ==
  \A r \in Requests :
    call[r] # Nobody /\ answer[r].ok =>
      /\ call[r].op = "read" =>
           /\ Valid(answer[r].text) /\ Len(answer[r].text) <= call[r].limit
           /\ Mixture(answer[r].text)
           /\ r \in met \/ (\E w \in met : Writes(w)) \/ \E text \in Texts : IsPrefix(answer[r].text, text)
      /\ call[r].op = "search" /\ answer[r].text # <<>> => ContainsText(answer[r].text, call[r].query)
=============================================================================
