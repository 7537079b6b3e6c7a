----------------------------- MODULE AFSSession -----------------------------
(***************************************************************************)
(* What the Andrew File System promises its clients, without caches and    *)
(* without callbacks: opening a file takes a private copy of the server's  *)
(* current contents, reads and writes act on that copy, and the close of a *)
(* written copy installs it on the server.  Descriptors that one client    *)
(* holds on the same file share the copy.  Module AFS is shown to          *)
(* implement this specification.                                           *)
(***************************************************************************)
EXTENDS Naturals

CONSTANTS Clients,   \* client names
          Files,     \* file names
          Fds        \* file descriptors a client may use

VARIABLES contents,  \* contents[f]: what the server stores for f
          sess       \* sess[c][f]: the copy of f client c works on

svars == <<contents, sess>>

NoSession == [fds |-> {}, data |-> 0, dirty |-> FALSE]

SInit == /\ contents \in [Files -> Nat]
         /\ sess = [c \in Clients |-> [f \in Files |-> NoSession]]

\* The first open copies the server's contents; later ones join the copy.
SOpen(c, f, fd) ==
  LET s == sess[c][f]
      joined  == [s EXCEPT !.fds = @ \cup {fd}]
      started == [fds |-> {fd}, data |-> contents[f], dirty |-> FALSE]
  IN  /\ fd \notin s.fds
      /\ sess' = [sess EXCEPT ![c][f] = IF s.fds = {} THEN started ELSE joined]
      /\ UNCHANGED contents

SWrite(c, f, fd) ==
  /\ fd \in sess[c][f].fds
  /\ sess' = [sess EXCEPT ![c][f] =
                 [fds |-> sess[c][f].fds, data |-> sess'[c][f].data, dirty |-> TRUE]]
  /\ sess'[c][f].data \in Nat
  /\ UNCHANGED contents

\* Any close of a written copy installs it; the last close drops the copy.
SClose(c, f, fd) ==
  LET s == sess[c][f]
  IN  /\ fd \in s.fds
      /\ contents' = IF s.dirty THEN [contents EXCEPT ![f] = s.data] ELSE contents
      /\ sess' = [sess EXCEPT ![c][f] =
                    IF s.fds = {fd} THEN NoSession
                    ELSE [fds |-> s.fds \ {fd}, data |-> s.data, dirty |-> FALSE]]

SNext == \E c \in Clients, f \in Files, fd \in Fds :
            SOpen(c, f, fd) \/ SWrite(c, f, fd) \/ SClose(c, f, fd)

SSpec == SInit /\ [][SNext]_svars
=============================================================================
