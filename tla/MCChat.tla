------------------------------- MODULE MCChat --------------------------------
\* Chat on a small instance: three chats, two of which type one question in
\* different ways.
EXTENDS Chat

MCPrompt == [c \in Chats |-> IF c = "c1" THEN "Opening hours?" ELSE "opening hours?"]

MCLower == [p \in Prompts |-> "opening hours?"]
=============================================================================
