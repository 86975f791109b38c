-------------------------- MODULE MCAcquireToken --------------------------
(* Two threads, two resources, two users. *)
EXTENDS AcquireToken, TLC
CONSTANTS h1, h2, r1, r2, u1, u2
MCHandlers  == {h1, h2}
MCResources == {r1, r2}
MCUsers     == {u1, u2}

Ask(handler, r, type, u, cache) ==
  [handler |-> handler, resource |-> r, type |-> type, wanted |-> u, load |-> cache]

\* Any user with and without the cache, a unique id, a required name, a
\* password, and a client.
MCRequests == {Ask("Interactive", r1, "Any", NoUser, TRUE),
               Ask("Interactive", r2, "UniqueId", u1, TRUE),
               Ask("Interactive", r1, "RequiredDisplayableId", u2, FALSE),
               Ask("NonInteractive", r2, "Any", u2, TRUE),
               Ask("ForClient", r1, "Any", NoUser, TRUE)}

MCReplies == {[idToken |-> TRUE,  refreshToken |-> TRUE,  multi |-> TRUE],
              [idToken |-> FALSE, refreshToken |-> FALSE, multi |-> TRUE],
              [idToken |-> FALSE, refreshToken |-> TRUE,  multi |-> TRUE]}

\* A file left by earlier processes: expired and fresh tokens of two users, with
\* and without refresh tokens.
Item(r, u, refresh, expires) ==
  [access |-> [resource |-> r, user |-> u], refresh |-> IF refresh THEN u ELSE Empty,
   mrrt |-> refresh, user |-> u, expires |-> expires]

Stored(r, u) == [authority |-> Tenant, resource |-> r, user |-> u, subject |-> "User"]

MCFiles ==
  {[NothingCached EXCEPT ![Stored(r1, u1)] = Item(r1, u1, TRUE, 1),
                         ![Stored(r2, u2)] = Item(r2, u2, FALSE, 2),
                         ![Stored(r2, u1)] = Item(r2, u1, TRUE, 3)]}

HandlerSymmetry == Permutations(MCHandlers)
=============================================================================
