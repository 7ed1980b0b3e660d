----------------------------- MODULE MCTelegram -----------------------------
EXTENDS Telegram, TLC
CONSTANTS dm, team
MCTexts == {[names |-> FALSE, large |-> TRUE]}
MCAnswers == {[parts |-> 2, file |-> TRUE]}
=============================================================================
