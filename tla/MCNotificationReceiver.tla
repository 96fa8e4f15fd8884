----------------------- MODULE MCNotificationReceiver -----------------------
(* Small instances of NotificationReceiver for TLC. *)
EXTENDS NotificationReceiver

CONSTANT t1

MCTopic      == {t1}
MCTopicNames == <<t1>>
=============================================================================
