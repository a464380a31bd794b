-------------------------- MODULE MCSessionRetries --------------------------
(* A session whose login is retried, and a second login of the account.      *)
EXTENDS MCWorldSession

CONSTANTS l1, l2

\* Bound: the second login comes during the last attempt of the first one, while
\* the world thread takes new sessions, and is refused at once.
SecondIsRefused ==
  \A account \in Accounts :
    LET first == <<account, l1>>
        second == <<account, l2>>
    IN  /\ second \in realm' \ realm =>
             first \in m_playerLoading /\ serial[first] = Attempts /\ world = "add"
        /\ second \in realm \ handed => second \in handed'
        /\ second \in handed \ deleted => second \in deleted'

\* Bound: a character is asked for once the session is initialised.
InitializedFirst == \A s \in m_playerLoading' \ m_playerLoading : initState[s] = "done"

RetriesNext == Next /\ SecondIsRefused /\ InitializedFirst

RetriesSpec == Init /\ [][RetriesNext]_vars /\ SessionFairness
=============================================================================
