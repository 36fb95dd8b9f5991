------------------------------- MODULE Listing -------------------------------
(***************************************************************************)
(* S3.List (internal/storage/s3.go) and the filter of timestampBackups     *)
(* (internal/backup/app.go): a listing comes in pages while other hosts    *)
(* change the bucket, from a server that may hand out bad continuation     *)
(* tokens or objects without a modification time.  Retention deletes and   *)
(* restore chooses by what is listed.                                      *)
(*                                                                         *)
(* A key is a positive number, listed in order.  A token is the key the    *)
(* page ended with; 0 stands for an empty token, and starts a listing.     *)
(* ListingOverConnection says when an answer comes, if it comes.           *)
(***************************************************************************)
EXTENDS Naturals, FiniteSets

CONSTANTS Keys,       \* keys under the prefix
          Backups,    \* those with the name of a timestamped backup
          PageSize,   \* objects in a page
          MaxEdits    \* bound: changes of the bucket during the listing

\* A key has at most 1024 bytes, so there are finitely many.
ASSUME KeysAssumption ==
  Keys \subseteq Nat \ {0} /\ IsFiniteSet(Keys) /\ Backups \subseteq Keys
ASSUME PageAssumption == PageSize \in Nat \ {0}

VARIABLES bucket,   \* keys that exist
          undated,  \* keys the server gives no modification time for
          always,   \* history: keys that existed all through the listing
          edits,    \* changes so far
          list      \* List and the SDK's paginator

listVars == <<bucket, undated, always, edits, list>>

ListInit ==
  /\ bucket \in SUBSET Keys /\ always = bucket /\ undated \in SUBSET Keys /\ edits = 0
  /\ list = [token |-> 0, tokens |-> {}, objects |-> {}, more |-> TRUE,
             result |-> "none"]

Listing == list.result = "none"

Edit(key) ==
  /\ Listing /\ edits < MaxEdits /\ edits' = edits + 1
  /\ \/ bucket' = bucket \ {key} /\ always' = always \ {key}
     \/ bucket' = bucket \cup {key} /\ UNCHANGED always
  /\ UNCHANGED <<undated, list>>

-----------------------------------------------------------------------------

\* The server's page: the first keys behind the token it was given.
Behind(token) == {key \in bucket : key > token}
Page(token) == {key \in Behind(token) :
                  Cardinality({other \in Behind(token) : other < key}) < PageSize}
Last(page, token) == IF page = {} THEN token
                     ELSE CHOOSE key \in page : \A other \in page : other <= key

\* The token of a good server, an empty one, or one it handed out before.
NextTokens(page) == {Last(page, list.token), 0} \cup list.tokens

Stops(result) == list' = [list EXCEPT !.result = result]

\* Missing dates must not turn an unknown age into an expired backup.
Dated(page) == page \cap undated = {}

NonemptyToken(token) == token # 0
UnseenToken(token) == token \notin list.tokens
NewToken(token) == token # 0 /\ token \notin list.tokens

BadTokenEndsListing == "ok"
BadTokenResult == "error"

NextPage ==
  /\ Listing /\ list.more /\ UNCHANGED <<bucket, undated, always, edits>>
  /\ LET page == Page(list.token)
         objects == list.objects \cup page
     IN \/ /\ ~Dated(page) /\ Stops("error")
        \/ /\ Dated(page) /\ Behind(list.token) = page
           /\ list' = [list EXCEPT !.objects = objects, !.more = FALSE]
        \/ /\ Dated(page) /\ Behind(list.token) # page
           /\ \E token \in NextTokens(page) :
                IF NewToken(token)
                THEN list' = [list EXCEPT !.objects = objects, !.token = token,
                                          !.tokens = @ \cup {token}]
                ELSE list' = [list EXCEPT !.objects = objects,
                                          !.result = BadTokenResult]

\* List returns, and timestampBackups keeps what is named like a backup.
OnlyBackups(objects) == objects \cap Backups

Finish ==
  /\ Listing /\ ~list.more
  /\ list' = [list EXCEPT !.result = "ok", !.objects = OnlyBackups(@)]
  /\ UNCHANGED <<bucket, undated, always, edits>>

\* The request fails or is canceled.
Fails == Listing /\ Stops("error") /\ UNCHANGED <<bucket, undated, always, edits>>

-----------------------------------------------------------------------------
(* Properties.                                                             *)

(***************************************************************************)
(* A listing that succeeds has every backup that was there all the time:   *)
(* neither pages that shift under it nor a bad token cut it short          *)
(* silently, so restore does not miss the newest backup (s3.go:181-187).   *)
(***************************************************************************)
Complete == list.result = "ok" => always \cap Backups \subseteq list.objects
=============================================================================
