---------------------------- MODULE FileTransfer ----------------------------
(***************************************************************************)
(* UPLOAD and DOWNLOAD: handle_upload and handle_download of               *)
(* include/client_session.hpp, encryptAES and decryptAES of                *)
(* include/crypto.hpp and the file functions of include/cast.hpp, on top   *)
(* of the tokens of UserRepository.                                        *)
(*                                                                         *)
(* All users share one directory, the one the server works in: a file_name *)
(* is a path from there and says nothing of its user.  A name here is the  *)
(* file that a path leads to, so that two paths of one file are one name;  *)
(* the files in which SQLite keeps messenger.db are among them.  The       *)
(* ofstream of bytesToFile is never asked whether it worked, so that a     *)
(* write may stop anywhere and a name may not be writable at all, and the  *)
(* answer is OK all the same.                                              *)
(***************************************************************************)
EXTENDS UserRepository, SequencesExt

CONSTANTS
    FileName,
    Unwritable,     \* names that ofstream cannot open: in a directory that is not there
    DatabaseFile,   \* messenger.db and its journal
    Data,           \* what is uploaded: sequences of bytes
    BlockSize       \* of AES: 16 bytes in the program

ASSUME FileAssumption ==
    /\ Unwritable \subseteq FileName /\ DatabaseFile \subseteq FileName
    /\ Data \subseteq Seq(0..255)
    /\ BlockSize \in Nat \ {0}

VARIABLES
    files,          \* name |-> bytes, the files that exist beside the database's
    uploaded,       \* history: name |-> what was last written to it
    torn,           \* history: names whose last write stopped early
    intact          \* no upload has written to a file of the database

fileVars == <<files, uploaded, torn, intact>>

-----------------------------------------------------------------------------
(***************************************************************************)
(* AES-256-CBC under the one SERVER_KEY, with the padding that EVP adds: n *)
(* bytes of value n, up to a whole number of blocks and at least one.  The *)
(* first blocks of a ciphertext decrypt to the first blocks of the text.   *)
(***************************************************************************)

Repeat(x, n) == [i \in 1..n |-> x]

Padding(text) == BlockSize - (Len(text) % BlockSize)

encryptAES(text) ==
    LET padded == text \o Repeat(Padding(text), Padding(text))
    IN  Repeat("iv", BlockSize) \o [i \in DOMAIN padded |-> <<"AES", padded[i]>>]

\* What decryptAES returns without an exception: none or one text.
decryptAES(bytes) ==
    LET size == Len(bytes) - BlockSize
        padded == [i \in 1..size |-> bytes[BlockSize + i][2]]
        padding == padded[size]
    IN  IF size > 0 /\ size % BlockSize = 0
           /\ padding \in 1..BlockSize
           /\ \A i \in (size - padding + 1)..size : padded[i] = padding
        THEN {SubSeq(padded, 1, size - padding)}
        ELSE {}

-----------------------------------------------------------------------------
\* A wrong bytesToFile: the file keeps what it has behind the new bytes.
bytesToFileOver(name, bytes, n) ==
    LET rest == IF name \in DOMAIN files THEN SubSeq(files[name], n + 1, Len(files[name])) ELSE << >>
    IN  files' = [f \in DOMAIN files \cup {name} |->
                      IF f = name THEN SubSeq(bytes, 1, n) \o rest ELSE files[f]]

\* The file is truncated when it is opened, and n bytes of the new ones reach it.
bytesToFile(name, bytes, n) ==
    files' = [f \in DOMAIN files \cup {name} |->
                  IF f = name THEN SubSeq(bytes, 1, n) ELSE files[f]]

\* bytesToFile of the encrypted text, whole or in part, if the name can be opened; it
\* opens the database's files like any other.
Store(name, text, n) ==
    /\ n <= Len(encryptAES(text))
    /\ \/ name \in Unwritable /\ UNCHANGED fileVars
       \/ /\ name \in DatabaseFile \ Unwritable
          /\ intact' = FALSE
          /\ UNCHANGED <<files, uploaded, torn>>
       \/ /\ name \notin Unwritable \cup DatabaseFile
          /\ bytesToFile(name, encryptAES(text), n)
          /\ uploaded' = [f \in DOMAIN uploaded \cup {name} |->
                              IF f = name THEN text ELSE uploaded[f]]
          /\ torn' = IF n < Len(encryptAES(text)) THEN torn \cup {name} ELSE torn \ {name}
          /\ UNCHANGED intact

handle_upload(t, name, text) ==
    /\ up
    /\ getLoginByToken(t)
    /\ IF TokenError(t) = "OK" THEN \E n \in 0..Len(encryptAES(text)) : Store(name, text, n)
       ELSE UNCHANGED fileVars
    /\ UNCHANGED <<users, now, up, timer, issued, revoked>>

\* The process is killed while it writes.
KilledInUpload(t, name, text) ==
    /\ up
    /\ TokenError(t) = "OK"
    /\ \E n \in 0..Len(encryptAES(text)) : Store(name, text, n)
    /\ Stop
    /\ UNCHANGED <<users, sessions, now, issued, revoked>>

\* What handle_download gives to a client with a good token: none if file_size or
\* decryptAES throws.
FileData(name) == IF name \in DOMAIN files THEN decryptAES(files[name]) ELSE {}

\* Whether it throws; a file that SQLite writes may happen to decrypt.
Throws(name) == IF name \in DatabaseFile THEN BOOLEAN ELSE {FileData(name) = {}}

\* An exception leaves io_context.run() and ends the server.
handle_download(t, name) ==
    /\ up
    /\ getLoginByToken(t)
    /\ \E throws \in Throws(name) :
          IF TokenError(t) = "OK" /\ throws THEN Stop ELSE UNCHANGED <<up, timer>>
    /\ UNCHANGED <<users, now, issued, revoked, fileVars>>

\* main after an upload has written to the database: if SQLite does not refuse what is
\* left, then it finds the tables of an earlier commit or, in an empty file, none.
\* (While the server runs on such files its statements may throw, which is a Crash.)
BootOnRemains ==
    /\ ~ intact /\ ~ up
    /\ up' = TRUE
    /\ timer' = now + Interval
    /\ \E n \in 0..Len(users) : \E rows \in SUBSET {t \in DOMAIN issued : issued[t].id <= n} :
          /\ users' = SubSeq(users, 1, n)
          /\ sessions' = [t \in {r \in rows : now - issued[r].created_at <= TokenTTL} |-> issued[t]]
    /\ UNCHANGED <<now, issued, revoked, fileVars>>

-----------------------------------------------------------------------------
FilesInit ==
    /\ Init
    /\ files = << >> /\ uploaded = << >> /\ torn = {} /\ intact = TRUE

FilesNext ==
    \/ Next /\ UNCHANGED fileVars
    \/ \E t \in DOMAIN issued, name \in FileName :
          \/ \E text \in Data : handle_upload(t, name, text) \/ KilledInUpload(t, name, text)
          \/ handle_download(t, name)
    \/ BootOnRemains

FilesSpec == FilesInit /\ [][FilesNext]_<<vars, fileVars>>

-----------------------------------------------------------------------------
\* Until an upload writes to the database's own files, getLoginByToken honours exactly
\* the tokens that are valid, as the user they were issued to: no upload, no exception of
\* a download, sweep, lookup, restart or logout of another token costs a user one.
TokensWhileIntact == intact => HonouredOnlyIfValid /\ ValidIsHonoured

\* A download gives what was last uploaded under the name, by whichever user: all of it
\* when the write was complete, whatever shorter or longer file it replaced, and after
\* a write that stopped early no other bytes than its first ones.  The database's own
\* files are not spoken of.
DownloadGivesUpload ==
    \A name \in DOMAIN uploaded :
        /\ name \notin torn => FileData(name) = {uploaded[name]}
        /\ \A text \in FileData(name) : IsPrefix(text, uploaded[name])
=============================================================================
