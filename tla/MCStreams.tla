----------------------------- MODULE MCStreams -----------------------------
(***************************************************************************)
(* Three parts that share no state, for TLC to check in one run: the pages *)
(* of a log that grows, the messages of a session, and the file server's   *)
(* tools on one file.  A behaviour is a behaviour of one of them, while    *)
(* the others stay as they begin.                                          *)
(***************************************************************************)
EXTENDS EventStream, Conversation, FileTools, Consent

VARIABLE part

partVars == <<part, vars, conversationVars, fileToolVars>>

PartInit ==
  /\ part \in {"events", "session", "file"}
  /\ Init /\ ConversationInit /\ FileInit
  /\ part # "file" => disk = Nobody

PartNext ==
  /\ UNCHANGED part
  /\ \/ part = "events" /\ Next /\ UNCHANGED <<conversationVars, fileToolVars>>
     \/ part = "session" /\ ConversationNext /\ UNCHANGED <<vars, fileToolVars>>
     \/ part = "file" /\ FileNext /\ UNCHANGED <<vars, conversationVars>>

PartSpec == PartInit /\ [][PartNext]_partVars

\* A text shorter than the largest size that is read, one of it, and one above it,
\* two of them with a character of two bytes; the first and the second make a text
\* of whole characters when they are mixed.
FileTexts == {<<"lead", "tail">>, <<"a", "a", "a">>, <<"a", "a", "lead", "tail">>}

\* Every variable of the three parts has its type.
PartTypeOK == TypeOK /\ ConversationTypeOK /\ FileTypeOK

\* However a text is cut, for a read or a summary, no character is left in half and
\* no more than needed is cut off; a snippet shows its match, and may begin and end
\* inside a character (CutsAreWhole).
TextsCutWhole == part = "file" => CutsAreWhole

\* The hash that is approved is the hash that the file server computes exactly if no
\* argument is read differently by the two ends, and payloads are read as they were
\* stored but for a minus zero (BothWaysAgree); what the orchestrator wants to be
\* approved is what the file server guards, with a token for that call and those
\* arguments alone (ConsentFits).
ArgumentsSurvive == part = "file" => BothWaysAgree /\ ConsentFits
=============================================================================
