------------------------- MODULE FileTransferProofs -------------------------
(***************************************************************************)
(* What UPLOAD and DOWNLOAD guarantee for any names, texts and block size, *)
(* with writes that stop anywhere and a server that is killed while it     *)
(* writes or ended by an exception.                                        *)
(*                                                                         *)
(* Two arguments meet here.  About encryptAES and decryptAES: text and     *)
(* padding fill whole blocks, and no other whole number of blocks ends     *)
(* within the padding, so that a ciphertext cut at a block either is whole *)
(* or ends inside the text (Decrypted).  About the table of files: a file  *)
(* is a beginning of the ciphertext of what was last uploaded to it, and   *)
(* all of it unless the write is known to be torn (FilesInv).              *)
(*                                                                         *)
(* The invariants of UserRepository are carried over to the two handlers:  *)
(* IInv for as long as no upload has written to a file of the database,    *)
(* and TablesInv, its part that does not rely on rows being remembered,    *)
(* also after that, whatever a restart has found in the database.          *)
(***************************************************************************)
EXTENDS FileTransfer, UserRepositoryProofs

-----------------------------------------------------------------------------
(***************************************************************************)
(* Whole numbers of blocks.                                                *)
(***************************************************************************)

LEMMA Division ==
    ASSUME NEW a \in Int, NEW b \in Int, b > 0
    PROVE  a % b \in 0..(b - 1) /\ a \div b \in Int /\ a = b * (a \div b) + (a % b)
  <1>1. a % b \in 0..(b - 1) /\ a \div b \in Int
    OBVIOUS
  <1>2. a = b * (a \div b) + (a % b)
    OBVIOUS
  <1> QED
    BY <1>1, <1>2

LEMMA NoMultipleBetween ==
    ASSUME NEW b \in Nat, NEW k \in Int, 0 <= b * k, b * k < b
    PROVE  k = 0
  OBVIOUS

\* Two multiples of b less than b apart are one.
LEMMA NextMultiple ==
    ASSUME NEW a \in Nat, NEW c \in Nat, NEW b \in Nat, b > 0,
           a % b = 0, c % b = 0, a <= c, c - a < b
    PROVE  a = c
  <1>1. /\ a = b * (a \div b) /\ a \div b \in Int
        /\ c = b * (c \div b) /\ c \div b \in Int
    BY Division
  <1>2. b * (c \div b - a \div b) = c - a
    BY <1>1
  <1>3. c \div b - a \div b = 0
    BY <1>1, <1>2, NoMultipleBetween
  <1> QED
    BY <1>1, <1>3

\* What is added to fill the last block.
LEMMA FilledUp ==
    ASSUME NEW a \in Nat, NEW b \in Nat, b > 0
    PROVE  (a + (b - (a % b))) % b = 0
  <1> DEFINE s == a + (b - (a % b))
  <1>1. s \in Nat
    BY Division
  <1>2. s = b * (a \div b + 1)
    <2> DEFINE q == a \div b
               r == a % b
    <2>1. a = b * q + r /\ q \in Int /\ r \in Int
      BY Division
    <2> HIDE DEF q, r
    <2>2. a + (b - r) = b * (q + 1)
      BY <2>1
    <2> QED
      BY <2>2, Zenon DEF q, r, s
  <1>3. s = b * (s \div b) + (s % b) /\ s \div b \in Int /\ s % b \in 0..(b - 1)
    BY <1>1, Division
  <1>4. b * (a \div b + 1 - s \div b) = s % b
    BY <1>2, <1>3, Division
  <1> DEFINE k == a \div b + 1 - s \div b
  <1>5. k \in Int /\ b * k \in 0..(b - 1)
    BY <1>3, <1>4, Division
  <1> HIDE DEF k
  <1>6. k = 0
    BY <1>5, NoMultipleBetween
  <1> QED
    BY <1>4, <1>6 DEF k

-----------------------------------------------------------------------------
(***************************************************************************)
(* encryptAES and decryptAES.                                              *)
(***************************************************************************)

LEMMA PaddingSize ==
    ASSUME NEW text \in Seq(Nat)
    PROVE  /\ BlockSize \in Nat /\ BlockSize > 0 /\ Len(text) \in Nat
           /\ Padding(text) \in 1..BlockSize
           /\ (Len(text) + Padding(text)) % BlockSize = 0
  <1>1. BlockSize \in Nat /\ BlockSize > 0 /\ Len(text) \in Nat
    BY FileAssumption, LenProperties DEF FileAssumption
  <1>2. Len(text) % BlockSize \in 0..(BlockSize - 1)
    BY <1>1, Division
  <1>3. (Len(text) + (BlockSize - (Len(text) % BlockSize))) % BlockSize = 0
    BY <1>1, FilledUp
  <1> DEFINE r == Len(text) % BlockSize
  <1>4. Padding(text) = BlockSize - r
    BY DEF Padding
  <1> HIDE DEF r
  <1>5. BlockSize - r \in 1..BlockSize
    BY <1>1, <1>2 DEF r
  <1> QED
    BY <1>1, <1>3, <1>4, <1>5, Zenon DEF r

\* The layout of a ciphertext: the iv, the text, the padding.
LEMMA Encrypted ==
    ASSUME NEW text \in Seq(Nat)
    PROVE  LET c == encryptAES(text)
           IN  /\ \E S : c \in Seq(S)
               /\ Len(c) = BlockSize + Len(text) + Padding(text)
               /\ \A i \in 1..Len(text) : c[BlockSize + i][2] = text[i]
               /\ \A i \in (Len(text) + 1)..(Len(text) + Padding(text)) :
                     c[BlockSize + i][2] = Padding(text)
  <1> DEFINE B == BlockSize
             L == Len(text)
             P == Padding(text)
             fill == Repeat(P, P)
             padded == text \o fill
             body == [i \in DOMAIN padded |-> <<"AES", padded[i]>>]
             iv == Repeat("iv", B)
             S == {"iv"} \cup {<<"AES", x>> : x \in Nat}
  <1>1. B \in Nat /\ B > 0 /\ L \in Nat /\ P \in Nat /\ P > 0
    BY PaddingSize
  <1>2. encryptAES(text) = iv \o body
    BY DEF encryptAES
  <1> HIDE DEF B, L, P
  <1>3. fill \in Seq(Nat) /\ Len(fill) = P /\ \A i \in 1..P : fill[i] = P
    BY <1>1 DEF Repeat
  <1> HIDE DEF fill
  <1>4. /\ padded \in Seq(Nat) /\ Len(padded) = L + P
        /\ \A i \in 1..L : padded[i] = text[i]
        /\ \A i \in (L + 1)..(L + P) : padded[i] = P
    <2>1. padded \in Seq(Nat) /\ Len(padded) = L + P
      BY <1>1, <1>3, ConcatProperties DEF L
    <2>2. \A i \in 1..(L + P) : padded[i] = IF i <= L THEN text[i] ELSE fill[i - L]
      BY <1>1, <1>3, ConcatProperties DEF L
    <2>3. \A i \in (L + 1)..(L + P) : i - L \in 1..P /\ i \in 1..(L + P) /\ ~ (i <= L)
      BY <1>1
    <2>4. \A i \in 1..L : i \in 1..(L + P) /\ i <= L
      BY <1>1
    <2> QED
      BY <1>3, <2>1, <2>2, <2>3, <2>4
  <1> HIDE DEF padded
  <1>5. DOMAIN padded = 1..(L + P) /\ \A i \in 1..(L + P) : padded[i] \in Nat
    BY <1>4, LenProperties, ElementOfSeq
  <1>6. /\ body \in Seq(S) /\ Len(body) = L + P
        /\ \A i \in 1..(L + P) : body[i][2] = padded[i]
    <2>1. body = [i \in 1..(L + P) |-> <<"AES", padded[i]>>]
      BY <1>5
    <2>2. \A i \in 1..(L + P) : body[i] = <<"AES", padded[i]>> /\ body[i] \in S
      BY <1>5, <2>1
    <2>3. body \in [1..(L + P) -> S]
      BY <2>1, <2>2
    <2>4. L + P \in Nat
      BY <1>1
    <2> HIDE DEF body, S
    <2>5. body \in Seq(S) /\ Len(body) = L + P
      BY <2>3, <2>4
    <2> QED
      BY <2>2, <2>5
  <1>7. iv \in Seq(S) /\ Len(iv) = B
    BY <1>1 DEF Repeat
  <1> HIDE DEF body, iv, S
  <1>8. /\ iv \o body \in Seq(S)
        /\ Len(iv \o body) = B + (L + P)
        /\ \A i \in 1..(B + (L + P)) : (iv \o body)[i] = IF i <= B THEN iv[i] ELSE body[i - B]
    <2>1. /\ iv \o body \in Seq(S)
          /\ Len(iv \o body) = Len(iv) + Len(body)
          /\ \A i \in 1..(Len(iv) + Len(body)) :
                (iv \o body)[i] = IF i <= Len(iv) THEN iv[i] ELSE body[i - Len(iv)]
      BY <1>6, <1>7, ConcatProperties
    <2> QED
      BY <1>6, <1>7, <2>1, Zenon
  <1>9. \A i \in 1..(L + P) : (iv \o body)[B + i] = body[i]
    <2>1. \A i \in 1..(L + P) :
              B + i \in 1..(B + (L + P)) /\ ~ (B + i <= B) /\ (B + i) - B = i
      BY <1>1
    <2> QED
      BY <1>8, <2>1
  <1>10. \A i \in 1..(L + P) : (iv \o body)[B + i][2] = padded[i]
    BY <1>6, <1>9
  <1>11. /\ \A i \in 1..L : i \in 1..(L + P)
         /\ \A i \in (L + 1)..(L + P) : i \in 1..(L + P)
         /\ B + (L + P) = B + L + P
    BY <1>1
  <1>12. /\ \E T : iv \o body \in Seq(T)
         /\ Len(iv \o body) = B + L + P
         /\ \A i \in 1..L : (iv \o body)[B + i][2] = text[i]
         /\ \A i \in (L + 1)..(L + P) : (iv \o body)[B + i][2] = P
    BY <1>4, <1>8, <1>10, <1>11
  <1> QED
    BY <1>2, <1>12 DEF B, L, P

\* decryptAES of the first n bytes of a ciphertext: nothing, or a beginning of
\* the text; and of the whole ciphertext the text itself.
LEMMA Decrypted ==
    ASSUME NEW text \in Seq(Nat), NEW n \in 0..Len(encryptAES(text))
    PROVE  LET d == decryptAES(SubSeq(encryptAES(text), 1, n))
           IN  /\ \A t \in d : IsPrefix(t, text)
               /\ n = Len(encryptAES(text)) => d = {text}
  <1> DEFINE B == BlockSize
             L == Len(text)
             P == Padding(text)
             c == encryptAES(text)
             bytes == SubSeq(c, 1, n)
             size == Len(bytes) - B
             padded == [i \in 1..size |-> bytes[B + i][2]]
             padding == padded[size]
             good == /\ size > 0 /\ size % B = 0
                     /\ padding \in 1..B
                     /\ \A i \in (size - padding + 1)..size : padded[i] = padding
  <1>1. /\ B \in Nat /\ B > 0 /\ L \in Nat /\ P \in 1..B /\ P \in Nat
        /\ (L + P) % B = 0
    BY PaddingSize
  <1>2. /\ \E S : c \in Seq(S)
        /\ Len(c) = B + L + P
        /\ \A i \in 1..L : c[B + i][2] = text[i]
        /\ \A i \in (L + 1)..(L + P) : c[B + i][2] = P
    BY Encrypted
  <1>3. decryptAES(bytes) = IF good THEN {SubSeq(padded, 1, size - padding)} ELSE {}
    BY DEF decryptAES
  <1>4. n \in 0..Len(c)
    OBVIOUS
  <1> HIDE DEF c, B, L, P
  <1>5. n \in Nat /\ n <= B + L + P
    BY <1>1, <1>2, <1>4
  <1>6. Len(bytes) = n /\ \A i \in 1..n : bytes[i] = c[i]
    BY <1>2, <1>4, <1>5, SubSeqProperties
  <1> HIDE DEF bytes
  <1>7. size = n - B /\ size \in Int /\ size <= L + P
    BY <1>1, <1>5, <1>6
  <1>8. \A i \in 1..size : padded[i] = c[B + i][2]
    <2>1. \A i \in 1..size : B + i \in 1..n
      BY <1>1, <1>5, <1>7
    <2> QED
      BY <1>6, <2>1
  <1>9. /\ \A i \in 1..size : i <= L => padded[i] = text[i]
        /\ \A i \in 1..size : ~ (i <= L) => padded[i] = P
    <2>1. \A i \in 1..size : (i <= L => i \in 1..L) /\ (~ (i <= L) => i \in (L + 1)..(L + P))
      BY <1>1, <1>7
    <2> QED
      BY <1>2, <1>8, <2>1
  <1>11. text \in Seq(Nat) /\ DOMAIN text = 1..L
    BY LenProperties DEF L
  <1>12. DOMAIN padded = 1..size
    OBVIOUS
  <1> HIDE DEF padded, size
  <1>10. ASSUME size > 0, size % B = 0, ~ (size <= L)
         PROVE  size = L + P
    <2>1. size \in Nat /\ L + P \in Nat /\ L + P - size < B
      BY <1>1, <1>7, <1>10
    <2> QED
      BY <1>1, <1>7, <1>10, <2>1, NextMultiple
  <1>13. ASSUME good
         PROVE  /\ size - padding \in 0..L
                /\ SubSeq(padded, 1, size - padding) = SubSeq(text, 1, size - padding)
    <2>0. size \in Nat /\ size > 0 /\ padding \in 1..B /\ size \in 1..size
      BY <1>7, <1>13
    <2>1. size - padding <= L
      <3>1. CASE size <= L
        BY <1>1, <2>0, <3>1
      <3>2. CASE ~ (size <= L)
        <4>1. size = L + P /\ padding = P
          BY <1>9, <1>10, <1>13, <2>0, <3>2
        <4> QED
          BY <1>1, <4>1
      <3> QED
        BY <3>1, <3>2
    <2>2. size >= B
      <3>1. 0 % B = 0
        BY <1>1
      <3>2. CASE size < B
        BY <1>1, <1>13, <2>0, <3>1, <3>2, NextMultiple
      <3> QED
        BY <1>1, <2>0, <3>2
    <2>3. size - padding \in 0..L /\ size - padding \in Nat /\ size - padding <= size
      BY <1>1, <2>0, <2>1, <2>2
    <2> DEFINE k == size - padding
    <2>4. k \in Nat /\ k <= L /\ k <= size
      BY <2>3
    <2> HIDE DEF k
    <2>5. \A i \in 1..k : i \in 1..size /\ i \in 1..L /\ i <= L
      BY <1>1, <2>0, <2>4
    <2>6. \A i \in 1..k : padded[i] = text[i] /\ text[i] \in Nat
      BY <1>9, <1>11, <2>5, ElementOfSeq DEF L
    <2>7. SubSeq(padded, 1, k) = [i \in 1..k |-> padded[i]]
      BY <2>4
    <2>8. SubSeq(text, 1, k) = [i \in 1..k |-> text[i]]
      BY <2>4
    <2>9. SubSeq(padded, 1, k) = SubSeq(text, 1, k)
      BY <2>6, <2>7, <2>8
    <2> QED
      BY <2>3, <2>9 DEF k
  <1>14. \A k \in 0..L : IsPrefix(SubSeq(text, 1, k), text)
    <2> SUFFICES ASSUME NEW k \in 0..L PROVE IsPrefix(SubSeq(text, 1, k), text)
      OBVIOUS
    <2>1. \A i \in 1..k : text[i] \in Nat
      BY <1>1, <1>11, ElementOfSeq DEF L
    <2>2. SubSeq(text, 1, k) \in Seq(Nat) /\ Len(SubSeq(text, 1, k)) = k
      BY <1>1, <2>1, SubSeqProperties
    <2>3. SubSeq(SubSeq(text, 1, k), 1, k) = SubSeq(text, 1, k)
      BY <2>2, SubSeqFull
    <2>4. k <= Len(text)
      BY <1>1 DEF L
    <2> QED
      BY <2>2, <2>3, <2>4 DEF IsPrefix
  <1>15. ASSUME NEW t \in decryptAES(bytes) PROVE IsPrefix(t, text)
    <2>1. good /\ t = SubSeq(padded, 1, size - padding)
      BY <1>3
    <2> QED
      BY <1>13, <1>14, <2>1
  <1>16. ASSUME n = Len(c) PROVE decryptAES(bytes) = {text}
    <2>1. size = L + P /\ size \in Nat /\ size > 0 /\ size \in 1..size /\ ~ (size <= L)
      BY <1>1, <1>2, <1>7, <1>16
    <2>2. padding = P
      BY <1>9, <2>1
    <2>3. \A i \in (size - P + 1)..size : i \in 1..size /\ ~ (i <= L)
      BY <1>1, <2>1
    <2>4. good
      BY <1>1, <1>9, <2>1, <2>2, <2>3
    <2>5. size - padding = L
      BY <1>1, <2>1, <2>2
    <2>6. SubSeq(padded, 1, size - padding) = text
      BY <1>13, <2>4, <2>5, <1>11, SubSeqFull DEF L
    <2> QED
      BY <1>3, <2>4, <2>6
  <1> QED
    BY <1>15, <1>16 DEF bytes, c

-----------------------------------------------------------------------------
(***************************************************************************)
(* The files.                                                              *)
(***************************************************************************)

\* A file holds the first n bytes of the ciphertext of what was last uploaded
\* to it.
Holds(bytes, text, n) ==
    n \in 0..Len(encryptAES(text)) /\ bytes = SubSeq(encryptAES(text), 1, n)

FilesInv ==
    \A name \in DOMAIN uploaded :
        /\ name \in DOMAIN files
        /\ uploaded[name] \in Data
        /\ \E n : /\ Holds(files[name], uploaded[name], n)
                  /\ name \notin torn => n = Len(encryptAES(uploaded[name]))

LEMMA TextType == ASSUME NEW text \in Data PROVE text \in Seq(Nat)
  <1>1. text \in Seq(0..255)
    BY FileAssumption DEF FileAssumption
  <1>2. Len(text) \in Nat /\ text \in [1..Len(text) -> 0..255]
    BY <1>1, LenProperties
  <1> DEFINE k == Len(text)
  <1> HIDE DEF k
  <1>3. text \in [1..k -> 0..255]
    BY <1>2 DEF k
  <1>4. \A i \in 1..k : text[i] \in Nat
    <2>1. \A x \in 0..255 : x \in Nat
      OBVIOUS
    <2> QED
      BY <1>3, <2>1, Zenon
  <1>5. text = [i \in 1..k |-> text[i]]
    BY <1>3
  <1>6. text \in [1..k -> Nat]
    BY <1>4, <1>5
  <1> QED
    BY <1>2, <1>6 DEF k

\* What a download returns follows from what the file holds.
LEMMA FilesInvDownload == ASSUME FilesInv PROVE DownloadGivesUpload
  <1> SUFFICES ASSUME NEW name \in DOMAIN uploaded
               PROVE  /\ name \notin torn => FileData(name) = {uploaded[name]}
                      /\ \A text \in FileData(name) : IsPrefix(text, uploaded[name])
    BY DEF DownloadGivesUpload
  <1> DEFINE text == uploaded[name]
  <1>1. name \in DOMAIN files /\ text \in Data
    BY DEF FilesInv
  <1>2. PICK n : /\ Holds(files[name], text, n)
                 /\ name \notin torn => n = Len(encryptAES(text))
    BY DEF FilesInv
  <1>3. text \in Seq(Nat)
    BY <1>1, TextType
  <1> HIDE DEF text
  <1>4. n \in 0..Len(encryptAES(text)) /\ files[name] = SubSeq(encryptAES(text), 1, n)
    BY <1>2 DEF Holds
  <1>5. FileData(name) = decryptAES(SubSeq(encryptAES(text), 1, n))
    BY <1>1, <1>4 DEF FileData
  <1>6. /\ \A t \in FileData(name) : IsPrefix(t, text)
        /\ n = Len(encryptAES(text)) => FileData(name) = {text}
    BY <1>3, <1>4, <1>5, Decrypted
  <1> QED
    BY <1>2, <1>6 DEF text

\* A write, whole or not, replaces one file and no other, or damages the database
\* for good.
LEMMA StoreKeeps ==
    ASSUME FilesInv, NEW name, NEW text \in Data, NEW n \in 0..Len(encryptAES(text)),
           Store(name, text, n)
    PROVE  FilesInv' /\ (intact' => intact)
  <1>1. CASE UNCHANGED <<files, uploaded, torn>> /\ (intact' => intact)
    BY <1>1 DEF FilesInv, Holds
  <1>2. CASE name \notin Unwritable \cup DatabaseFile /\ UNCHANGED intact
    <2> DEFINE all == Len(encryptAES(text))
               bytes == SubSeq(encryptAES(text), 1, n)
    <2>0. n \in Nat /\ all \in Int /\ n <= all
      <3>1. text \in Seq(Nat)
        BY TextType
      <3>2. /\ BlockSize \in Nat /\ Len(text) \in Nat /\ Padding(text) \in Nat
            /\ all = BlockSize + Len(text) + Padding(text)
        BY <3>1, PaddingSize, Encrypted
      <3>3. all \in Int
        BY <3>2
      <3> HIDE DEF all
      <3>4. n \in 0..all
        BY DEF all
      <3> QED
        BY <3>3, <3>4
    <2>1. /\ files' = [f \in DOMAIN files \cup {name} |-> IF f = name THEN bytes ELSE files[f]]
          /\ uploaded' = [f \in DOMAIN uploaded \cup {name} |->
                              IF f = name THEN text ELSE uploaded[f]]
          /\ torn' = IF n < all THEN torn \cup {name} ELSE torn \ {name}
      <3>1. bytesToFile(name, encryptAES(text), n)
        BY <1>2, Zenon DEF Store, fileVars
      <3> QED
        BY <1>2, <3>1 DEF Store, bytesToFile
    <2>2. Holds(bytes, text, n)
      BY DEF Holds
    <2> HIDE DEF all, bytes
    <2>3. ASSUME NEW f \in DOMAIN uploaded', f # name
          PROVE  /\ f \in DOMAIN uploaded /\ f \in DOMAIN files /\ f \in DOMAIN files'
                 /\ files'[f] = files[f] /\ uploaded'[f] = uploaded[f]
                 /\ f \in torn' <=> f \in torn
      BY <2>1, <2>3 DEF FilesInv
    <2>4. /\ name \in DOMAIN files' /\ files'[name] = bytes /\ uploaded'[name] = text
          /\ name \notin torn' => n = all
      BY <2>0, <2>1
    <2>5. ASSUME NEW f \in DOMAIN uploaded'
          PROVE  /\ f \in DOMAIN files'
                 /\ uploaded'[f] \in Data
                 /\ \E k : /\ Holds(files'[f], uploaded'[f], k)
                           /\ f \notin torn' => k = Len(encryptAES(uploaded'[f]))
      <3>1. CASE f = name
        BY <2>2, <2>4, <3>1 DEF all
      <3>2. CASE f # name
        BY <2>3, <3>2 DEF FilesInv
      <3> QED
        BY <3>1, <3>2
    <2>6. FilesInv'
      BY <2>5 DEF FilesInv, Holds
    <2> QED
      BY <1>2, <2>6
  <1> QED
    BY <1>1, <1>2 DEF Store, fileVars

\* A start on what an upload has left of the database keeps to the types, and sweeps.
LEMMA RemainsTables == ASSUME TablesInv, BootOnRemains PROVE TablesInv'
  <1>1. PICK n \in 0..Len(users), rows \in SUBSET DOMAIN issued :
           /\ users' = SubSeq(users, 1, n)
           /\ sessions' = [t \in {r \in rows : now - issued[r].created_at <= TokenTTL} |-> issued[t]]
    BY DEF BootOnRemains
  <1>2. /\ users \in Seq([login: Login, password: Password]) /\ issued \in Seq(Session)
        /\ now \in Nat /\ Interval \in Nat /\ TokenTTL \in Nat
    BY UserAssumption DEF TablesInv, TypeOK
  <1>3. UNCHANGED <<now, issued, revoked>> /\ up' = TRUE /\ timer' = now + Interval
    BY DEF BootOnRemains
  <1>4. /\ users' \in Seq([login: Login, password: Password])
        /\ DOMAIN users' \subseteq DOMAIN users
        /\ \A i \in DOMAIN users' : users'[i] = users[i]
    <2>1. n \in Nat /\ n <= Len(users) /\ Len(users) \in Nat /\ DOMAIN users = 1..Len(users)
      BY <1>2, LenProperties
    <2>2. \A i \in 1..n : i \in 1..Len(users) /\ users[i] \in [login: Login, password: Password]
      <3>1. \A i \in 1..n : i \in 1..Len(users)
        BY <2>1
      <3>2. \A i \in 1..Len(users) : users[i] \in [login: Login, password: Password]
        BY <1>2, ElementOfSeq
      <3> QED
        BY <3>1, <3>2
    <2>3. /\ SubSeq(users, 1, n) \in Seq([login: Login, password: Password])
          /\ Len(SubSeq(users, 1, n)) = n
          /\ \A i \in 1..n : SubSeq(users, 1, n)[i] = users[i]
      <3> DEFINE Row == [login: Login, password: Password]
      <3> HIDE DEF Row
      <3>1. \A i \in 1..n : users[i] \in Row
        BY <2>2 DEF Row
      <3>2. /\ SubSeq(users, 1, n) \in Seq(Row)
            /\ Len(SubSeq(users, 1, n)) = IF 1 <= n THEN n - 1 + 1 ELSE 0
            /\ \A i \in 1..(n - 1 + 1) : SubSeq(users, 1, n)[i] = users[1 + i - 1]
        BY <2>1, <3>1, SubSeqProperties
      <3>3. /\ n - 1 + 1 = n /\ n = IF 1 <= n THEN n - 1 + 1 ELSE 0
            /\ \A i \in 1..n : 1 + i - 1 = i
        BY <2>1
      <3> QED
        BY <3>2, <3>3 DEF Row
    <2>4. DOMAIN SubSeq(users, 1, n) = 1..n
      BY <2>3, LenProperties
    <2> QED
      BY <1>1, <2>1, <2>2, <2>3, <2>4
  <1>5. \A t \in DOMAIN issued : issued[t] \in Session /\ issued[t].created_at \in Nat
    <2>1. \A t \in DOMAIN issued : issued[t] \in Session
      BY <1>2, ElementOfSeq
    <2> QED
      BY <2>1 DEF Session
  <1>6. /\ DOMAIN sessions' \subseteq DOMAIN issued
        /\ \A t \in DOMAIN sessions' :
              /\ sessions'[t] = issued[t] /\ sessions'[t] \in Session
              /\ sessions'[t].created_at \in Nat
              /\ now - sessions'[t].created_at <= TokenTTL
    BY <1>1, <1>5
  <1>7. TypeOK'
    BY <1>2, <1>3, <1>4, <1>6 DEF TablesInv, TypeOK
  <1>8. LoginsUnique' /\ RowsAreIssued' /\ IssuedBefore'
    BY <1>3, <1>4, <1>6 DEF TablesInv, LoginsUnique, RowsAreIssued, IssuedBefore
  <1>9. TimerArmed'
    BY <1>2, <1>3, <1>6 DEF TimerArmed
  <1> QED
    BY <1>7, <1>8, <1>9 DEF TablesInv

FInv == TablesInv /\ (intact => IInv) /\ FilesInv

\* Every step keeps the invariants of the tables and that of the files.
LEMMA FilesStep == ASSUME FInv, [FilesNext]_<<vars, fileVars>> PROVE FInv'
  <1>0. UNCHANGED fileVars => FilesInv' /\ (intact' => intact)
    BY DEF fileVars, FInv, FilesInv, Holds
  <1>1. CASE [Next]_vars /\ UNCHANGED fileVars
    BY <1>0, <1>1, StepTables, StepIInv DEF FInv
  <1>2. ASSUME NEW t, NEW name, NEW text \in Data, handle_upload(t, name, text)
        PROVE  FInv'
    <2>1. getLoginByToken(t) /\ UNCHANGED <<users, now, up, timer, issued, revoked>>
      BY <1>2 DEF handle_upload
    <2>2. FilesInv' /\ (intact' => intact)
      BY <1>0, <1>2, StoreKeeps DEF handle_upload, FInv
    <2> QED
      BY <2>1, <2>2, LookupTables, LookupIInv DEF FInv
  <1>3. ASSUME NEW t, NEW name, NEW text \in Data, KilledInUpload(t, name, text)
        PROVE  FInv'
    <2>1. Stop /\ UNCHANGED <<users, sessions, now, issued, revoked>>
      BY <1>3 DEF KilledInUpload
    <2>2. FilesInv' /\ (intact' => intact)
      BY <1>3, StoreKeeps DEF KilledInUpload, FInv
    <2> QED
      BY <2>1, <2>2, StopTables, StopIInv DEF FInv
  <1>4. ASSUME NEW t, NEW name, handle_download(t, name) PROVE FInv'
    <2>1. UNCHANGED fileVars /\ UNCHANGED <<users, now, issued, revoked>> /\ getLoginByToken(t)
      BY <1>4 DEF handle_download
    <2>2. CASE TokenError(t) = "OK" /\ Stop
      <3>1. UNCHANGED sessions
        BY <2>1, <2>2 DEF getLoginByToken
      <3> QED
        BY <1>0, <2>1, <2>2, <3>1, StopTables, StopIInv DEF FInv
    <2>3. CASE UNCHANGED <<up, timer>>
      BY <1>0, <2>1, <2>3, LookupTables, LookupIInv DEF FInv
    <2> QED
      BY <1>4, <2>2, <2>3 DEF handle_download
  <1>5. CASE BootOnRemains
    BY <1>0, <1>5, RemainsTables DEF FInv, BootOnRemains
  <1> QED
    BY <1>1, <1>2, <1>3, <1>4, <1>5 DEF FilesNext

-----------------------------------------------------------------------------
\* The invariants of the token tables and of the files together.
THEOREM FilesInvariance == FilesSpec => []FInv
  <1>1. FilesInit => FInv
    BY InitIInv, IInvTables DEF FilesInit, FInv, FilesInv
  <1> QED
    BY <1>1, FilesStep, PTL DEF FilesSpec

\* A download gives the text last uploaded under the name, and after a write
\* that stopped early nothing that is not its beginning: for texts, names and
\* cuts of any length.
THEOREM DownloadIsUpload == FilesSpec => []DownloadGivesUpload
  BY FilesInvariance, FilesInvDownload, PTL DEF FInv

\* Uploads under any name, the database's own included, what a restart finds after
\* them, and downloads that end the server leave the token tables typed,
THEOREM FilesTypeCorrect == FilesSpec => []TypeOK
  BY FilesInvariance, PTL DEF FInv, TablesInv

\* with unique logins,
THEOREM FilesUnique == FilesSpec => []LoginsUnique
  BY FilesInvariance, PTL DEF FInv, TablesInv

\* and with every row swept in time.
THEOREM FilesSwept == FilesSpec => []RowsSweptInTime
  BY FilesInvariance, TablesSwept, PTL DEF FInv

\* Until an upload reaches a file of the database, exactly the valid tokens are
\* honoured: no other upload, torn write or exception of a download costs a user one.
THEOREM FilesTokens == FilesSpec => []TokensWhileIntact
  <1>1. FInv => TokensWhileIntact
    BY IInvHonoured, IInvValid DEF FInv, TokensWhileIntact
  <1> QED
    BY <1>1, FilesInvariance, PTL
=============================================================================
